---- MODULE Spec2Model ----
(***************************************************************************)
(* Feed-fetch orchestration of infovore (package rss): the per-domain      *)
(* limiter, Fetcher.FetchFeed, Fetcher.FetchAll (sequential and worker     *)
(* pool) and the storage calls they make.                                  *)
(*                                                                         *)
(* Time is an integer clock in milliseconds.  Error messages are finite    *)
(* sequences of characters, so that the empty message is <<>>.             *)
(***************************************************************************)
EXTENDS Integers, Sequences, FiniteSets, Bags, TLC

----------------------------------------------------------------------------
(* Bounds of the model *)

\* the clock stops advancing at MaxTime (milliseconds)
MaxTime == 750
\* one clock step (milliseconds)
TickStep == 250
\* FetchFeed calls started in one run
MaxCalls == 3
\* the feeds subscribed when FetchAll runs
NumFeeds == 3
\* the workers of fetchParallel: stands for MaxConcurrencyPostgres (10)
PoolSize == 2
\* the cycles of the Poller's loop in one run
MaxCycles == 2
\* the bits of a time.Duration: stands for 64
DurationBits == 16
\* time.Minute in the unit of a time.Duration: stands for 6 * 10^10 nanoseconds
Minute == 60

----------------------------------------------------------------------------
(* Program constants *)

MinPollingIntervalMinutes == 15
MaxConcurrencySQLite == 1
MaxConcurrencyPerDomain == 2
\* 500 * time.Millisecond
DelayBetweenDomainRequests == 500
\* errMsg = errMsg[:200]
ErrMsgLimit == 200
\* time.Time{} : lastReq.IsZero(), and last_fetched NULL
ZeroTime == 0

----------------------------------------------------------------------------
(* Feeds, URLs and parsed content *)

\* the rows of table feeds: id -> url (url is UNIQUE)
FeedURL == <<"http://a/1", "http://a/2", "http://b/1", "http://b/2">>

\* url.Parse: the host of each URL of the model
UrlHost ==
    ("http://a/1" :> "a") @@ ("http://a/2" :> "a") @@
    ("http://b/1" :> "b") @@ ("http://b/2" :> "b")

\* url.Parse fails on none of the URLs above
UrlParseErr(u) == u \notin DOMAIN UrlHost

extractDomain(feedURL) ==
    IF UrlParseErr(feedURL) THEN feedURL ELSE UrlHost[feedURL]

\* gofeed.Item, the fields FetchFeed reads for the dedup key
Item(guid, link) == [GUID |-> guid, Link |-> link]

\* what ParseURLWithContext can return for a feed: gofeed.Feed{Title, Items}
Parsed(title, its) == [Title |-> title, Items |-> its]

NoParsed == Parsed("", <<>>)

\* history: no fetch of the feed has returned nil yet
NoPrev == [content |-> NoParsed, clean |-> FALSE, any |-> FALSE]

\* err.Error() of a retrieval or parse failure: never empty
CtxErrMsg == <<"c">>

\* an error message one character longer than FetchFeed stores
LongMsg == [i \in 1..(ErrMsgLimit + 1) |-> "y"]

ErrMsgs == { <<"4", "0", "4">>, <<"x">>, LongMsg, CtxErrMsg }

Fetchers == {"server", "poller"}

NoOwner == "none"

\* the context FetchAll is called with
BatchCtx == "batch"

\* the goroutines fetchParallel starts as workers
WorkerName == <<"w1", "w2", "w3">>
Workers(n) == { WorkerName[i] : i \in 1..n }
PoolProcs == Workers(PoolSize)

----------------------------------------------------------------------------
VARIABLES
    now,            \* the wall clock, time.Now()
    cancelled,      \* the contexts whose Done channel is closed
    semaphores,     \* domainLimiter.semaphores of each Fetcher: domain -> tokens in the channel
    lastRequest,    \* domainLimiter.lastRequest of each Fetcher: domain -> time
    mu,             \* domainLimiter.mu of each Fetcher: the goroutine holding it
    feeds,          \* table feeds: id -> [title, last_fetched, last_error]
    items,          \* table items: the bag of <<feed_id, guid>> rows
    itemLink,       \* table items: the link column of the row of each <<feed_id, guid>>
    pc,             \* where each goroutine is in FetchFeed
    call,           \* the locals of each goroutine's FetchFeed call
    ncalls,         \* FetchFeed calls started so far
    record,         \* the history a specification keeps (it never changes)
    lastDispatch,   \* history: per Fetcher and domain, when acquire last returned nil
    reportedNew,    \* history: the bag of <<feed_id, guid>> AddItem reported as new
    prevFetch,      \* history: per feed, the content of the last fetch that returned nil
    concurrency,    \* Fetcher.concurrency of each Fetcher
    batch,          \* the FetchAll call: its caller, feeds, loop index, results, error
    feedChan,       \* fetchParallel: the channel of feeds to fetch
    resultChan,     \* fetchParallel: the channel of FetchResults
    wg,             \* fetchParallel: the WaitGroup counter
    sender,         \* fetchParallel: the goroutine sending the feeds to the workers
    closer,         \* fetchParallel: the goroutine closing resultChan after wg.Wait()
    poller,         \* the Poller: stopChan, wg, the loop's locals, the caller of Stop
    setting         \* table settings: the value of polling_interval_minutes

vars == <<now, cancelled, semaphores, lastRequest, mu, feeds, items, itemLink, pc, call,
          ncalls, record, lastDispatch, reportedNew, prevFetch,
          concurrency, batch, feedChan, resultChan, wg, sender, closer,
          poller, setting>>

pollerVars == <<poller, setting>>
batchVars == <<concurrency, batch, feedChan, resultChan, wg, sender, closer>>
poolVars == <<feedChan, resultChan, wg, sender, closer>>

histVars == <<record, lastDispatch, reportedNew, prevFetch>>

limiterVars == <<semaphores, lastRequest, mu>>
storeVars == <<feeds, items, itemLink>>

Procs == DOMAIN pc
Feeds == DOMAIN feeds

\* the locals of a FetchFeed call that has not started
NoCall ==
    [ caller |-> "handler", fetcher |-> "server", ctx |-> "none",
      feed |-> [ID |-> 0, URL |-> "", Title |-> ""],
      lastReq |-> ZeroTime, wakeAt |-> ZeroTime,
      parsed |-> NoParsed, idx |-> 1, now |-> ZeroTime, newCount |-> 0,
      ret |-> [count |-> 0, err |-> "none"],
      acquired |-> FALSE, held |-> 0, releases |-> 0, exit |-> "none",
      start |-> ZeroTime, before |-> {}, prev |-> NoPrev, dbErrs |-> {},
      overlap |-> FALSE, errMsg |-> <<>> ]

\* the locals of a call that has returned are gone; fetchSequential and the
\* workers of fetchParallel go on with the feed and what FetchFeed returned; the
\* result stays as history
Returned(c) ==
    LET left == IF c.caller = "handler"
                THEN NoCall
                ELSE [NoCall EXCEPT !.caller = c.caller, !.feed = c.feed, !.ret = c.ret]
    IN  IF "result" \in record
        THEN [left EXCEPT !.ret = c.ret,
                          !.acquired = c.acquired, !.held = c.held,
                          !.releases = c.releases, !.exit = c.exit]
        ELSE left

\* where the goroutine goes on when its FetchFeed returns
ReturnTo(c) ==
    CASE c.caller = "worker" -> "w_send"
      [] c.caller = "seq" -> "seq_ret"
      [] OTHER -> "done"

\* history: the storage calls of p's FetchFeed that returned an error
DbErrs(p, op, ok) ==
    IF ok \/ ("dbErrs" \notin record /\ op \notin record)
    THEN call[p].dbErrs
    ELSE call[p].dbErrs \cup {op}

Domain(p) == extractDomain(call[p].feed.URL)
Lim(p) == call[p].fetcher
Done(p) == call[p].ctx \in cancelled

\* the dedup keys stored for feed f
StoredKeys(f) == { k[2] : k \in { r \in BagToSet(items) : r[1] = f } }

----------------------------------------------------------------------------
(* Storage: database.Store *)

\* GetFeedByID: the snapshot of a feed row a caller works from
GetFeedByID(f) == [ID |-> f, URL |-> FeedURL[f], Title |-> feeds[f].title]

\* GetAllFeeds: SELECT ... FROM feeds f ORDER BY f.title. FetchAll runs on feeds
\* whose titles are still their URLs, and the URLs of the model sort as the ids
GetAllFeeds == [i \in 1..Cardinality(Feeds) |-> GetFeedByID(i)]

\* UpdateFeedError as it would be if the UPDATE matched no row
UpdateFeedError_NoRow(feedID, errMsg, ok) ==
    feeds' = feeds

\* UPDATE feeds SET last_error = ? WHERE id = ?
UpdateFeedError(feedID, errMsg, ok) ==
    feeds' = IF ok THEN [feeds EXCEPT ![feedID].last_error = errMsg] ELSE feeds

\* UPDATE feeds SET title = ? WHERE id = ?
UpdateFeedTitle(tbl, feedID, title, ok) ==
    IF ok THEN [tbl EXCEPT ![feedID].title = title] ELSE tbl

\* UpdateFeedLastFetched as it would be without  last_error = ''  in the UPDATE
UpdateFeedLastFetched_KeepError(feedID, t, ok) ==
    feeds' = IF ok THEN [feeds EXCEPT ![feedID].last_fetched = t] ELSE feeds

\* UPDATE feeds SET last_fetched = ?, last_error = '' WHERE id = ?
UpdateFeedLastFetched(feedID, t, ok) ==
    feeds' = IF ok
             THEN [feeds EXCEPT ![feedID].last_fetched = t, ![feedID].last_error = <<>>]
             ELSE feeds

\* AddItemIsNew as it would be without UNIQUE(feed_id, guid): every insert goes in
AddItemIsNew_NoConflict(feedID, guid) == TRUE

\* INSERT ... ON CONFLICT(feed_id, guid) DO NOTHING: is the row new?
AddItemIsNew(feedID, guid) == ~BagIn(<<feedID, guid>>, items)

\* the link column after an AddItem that overwrote the row on a conflict
AddItemLink_Upsert(feedID, guid, link) ==
    (<<feedID, guid>> :> link) @@ itemLink

\* the link column after AddItem: the INSERT writes the columns of a new row, and
\* on a conflict does nothing
AddItemLink(feedID, guid, link) ==
    IF AddItemIsNew(feedID, guid)
    THEN (<<feedID, guid>> :> link) @@ itemLink
    ELSE itemLink

\* the table after AddItem
AddItem_Append(feedID, guid) ==
    items (+) SetToBag({<<feedID, guid>>})

AddItem(feedID, guid) ==
    IF AddItemIsNew(feedID, guid)
    THEN items (+) SetToBag({<<feedID, guid>>})
    ELSE items

----------------------------------------------------------------------------
(* The clock and the contexts *)

\* time passes: step milliseconds
Tick(step) ==
    /\ now + step <= MaxTime
    /\ now' = now + step
    /\ UNCHANGED <<pollerVars, batchVars, cancelled, limiterVars, storeVars, pc, call, ncalls, histVars>>

\* time passes until the timer of a sleeping acquire fires: time.After(delay)
AfterDelay(p) ==
    /\ pc[p] = "acquire_sleep"
    /\ now < call[p].wakeAt
    /\ now' = call[p].wakeAt
    /\ UNCHANGED <<pollerVars, batchVars, cancelled, limiterVars, storeVars, pc, call, ncalls, histVars>>

\* the caller cancels the context of a running call, or its deadline passes; the
\* call reads ctx in the two selects of acquire and in ParseURLWithContext, so a
\* cancellation shows at one of these
Cancel(p) ==
    /\ pc[p] \in {"acquire_select", "acquire_sleep", "parse"}
    /\ ~Done(p)
    /\ cancelled' = cancelled \cup {call[p].ctx}
    /\ UNCHANGED <<pollerVars, batchVars, now, limiterVars, storeVars, pc, call, ncalls, histVars>>

----------------------------------------------------------------------------
(* Fetcher.FetchFeed, up to the call of acquire *)

\* the locals of FetchFeed(ctx, feed) on Fetcher fz at its start
NewCall(caller, fz, ctx, feed) ==
    [NoCall EXCEPT !.caller = caller, !.fetcher = fz, !.ctx = ctx, !.feed = feed,
                   !.start = IF "start" \in record THEN now ELSE ZeroTime,
                   !.before = IF "before" \in record
                              THEN StoredKeys(feed.ID) ELSE {},
                   !.prev = IF "prev" \in record
                            THEN prevFetch[feed.ID] ELSE NoPrev]

\* the request goroutines of SpecOrigins
OriginProcs == {"p1", "p2", "p3", "p4"}

\* the FetchFeed calls of a run: MaxCalls, and one more where four request
\* goroutines run, so that all four can be in a call at once
CallBudget == IF Procs = OriginProcs THEN MaxCalls + 1 ELSE MaxCalls

\* a caller holding a snapshot of feed f calls FetchFeed(ctx, feed) on Fetcher fz,
\* with a context of its own
CallFetchFeed(p, fz, f) ==
    /\ pc[p] \in {"idle", "done"}
    /\ ncalls < CallBudget
    /\ ncalls' = ncalls + 1
    /\ cancelled' = cancelled \ {p}
    /\ call' = [call EXCEPT ![p] = NewCall("handler", fz, p, GetFeedByID(f))]
    /\ pc' = [pc EXCEPT ![p] = "acquire"]
    /\ UNCHANGED <<pollerVars, batchVars, now, limiterVars, storeVars, histVars>>

----------------------------------------------------------------------------
(* domainLimiter.acquire *)

\* an acquire that keeps the mutex locked while it waits for a slot
AcquireGetSem_HoldsMu(p) ==
    /\ pc[p] = "acquire"
    /\ mu[Lim(p)] = NoOwner
    /\ mu' = [mu EXCEPT ![Lim(p)] = p]
    /\ semaphores' =
         IF Domain(p) \in DOMAIN semaphores[Lim(p)]
         THEN semaphores
         ELSE [semaphores EXCEPT ![Lim(p)] = @ @@ (Domain(p) :> 0)]
    /\ pc' = [pc EXCEPT ![p] = "acquire_select"]
    /\ UNCHANGED <<pollerVars, batchVars, now, cancelled, lastRequest, storeVars, call, ncalls, histVars>>

\* dl.mu.Lock(); sem, ok := dl.semaphores[domain]; if !ok { make }; dl.mu.Unlock()
AcquireGetSem(p) ==
    /\ pc[p] = "acquire"
    /\ mu[Lim(p)] = NoOwner
    /\ semaphores' =
         IF Domain(p) \in DOMAIN semaphores[Lim(p)]
         THEN semaphores
         ELSE [semaphores EXCEPT ![Lim(p)] = @ @@ (Domain(p) :> 0)]
    /\ pc' = [pc EXCEPT ![p] = "acquire_select"]
    /\ UNCHANGED <<pollerVars, batchVars, now, cancelled, lastRequest, mu, storeVars, call, ncalls, histVars>>

\* AcquireSend as it would be with an unbuffered-count gate: the send never blocks
AcquireSend_NoCap(p) ==
    /\ pc[p] = "acquire_select"
    /\ semaphores' = [semaphores EXCEPT ![Lim(p)][Domain(p)] = @ + 1]
    /\ call' = [call EXCEPT ![p].held = @ + 1]
    /\ pc' = [pc EXCEPT ![p] = "acquire_last"]
    /\ UNCHANGED <<pollerVars, batchVars, now, cancelled, lastRequest, mu, storeVars, ncalls, histVars>>

\* case sem <- struct{}{}: the channel has room
AcquireSend(p) ==
    /\ pc[p] = "acquire_select"
    /\ semaphores[Lim(p)][Domain(p)] < MaxConcurrencyPerDomain
    /\ semaphores' = [semaphores EXCEPT ![Lim(p)][Domain(p)] = @ + 1]
    /\ call' = [call EXCEPT ![p].held = @ + 1]
    /\ pc' = [pc EXCEPT ![p] = "acquire_last"]
    /\ UNCHANGED <<pollerVars, batchVars, now, cancelled, lastRequest, mu, storeVars, ncalls, histVars>>

\* a FetchFeed that records the cancellation on the feed like a parse failure
AcquireCancelled_Recorded(p) ==
    /\ pc[p] = "acquire_select"
    /\ Done(p)
    /\ UpdateFeedError(call[p].feed.ID, CtxErrMsg, TRUE)
    /\ call' = [call EXCEPT ![p] =
                  Returned([call[p] EXCEPT
                              !.ret = [count |-> 0, err |-> "rate limit cancelled"],
                              !.exit = "select"])]
    /\ cancelled' = cancelled \ {p}
    /\ pc' = [pc EXCEPT ![p] = ReturnTo(call[p])]
    /\ UNCHANGED <<pollerVars, batchVars, now, limiterVars, items, itemLink, ncalls, histVars>>

\* an acquire that records the request time before it returns the cancellation
AcquireCancelled_Stamped(p) ==
    /\ pc[p] = "acquire_select"
    /\ Done(p)
    /\ lastRequest' = [lastRequest EXCEPT ![Lim(p)] = (Domain(p) :> now) @@ @]
    /\ call' = [call EXCEPT ![p] =
                  Returned([call[p] EXCEPT
                              !.ret = [count |-> 0, err |-> "rate limit cancelled"],
                              !.exit = "select"])]
    /\ cancelled' = cancelled \ {p}
    /\ pc' = [pc EXCEPT ![p] = ReturnTo(call[p])]
    /\ UNCHANGED <<pollerVars, batchVars, now, semaphores, mu, storeVars, ncalls, histVars>>

\* a FetchFeed that defers release before it looks at acquire's error
AcquireCancelled_Deferred(p) ==
    /\ pc[p] = "acquire_select"
    /\ Done(p)
    /\ call' = [call EXCEPT ![p].ret = [count |-> 0, err |-> "rate limit cancelled"],
                            ![p].exit = "select"]
    /\ pc' = [pc EXCEPT ![p] = "release"]
    /\ UNCHANGED <<pollerVars, batchVars, now, cancelled, limiterVars, storeVars, ncalls, histVars>>

\* case <-ctx.Done(): return ctx.Err(); FetchFeed returns "rate limit cancelled"
AcquireCancelled(p) ==
    /\ pc[p] = "acquire_select"
    /\ Done(p)
    /\ call' = [call EXCEPT ![p] =
                  Returned([call[p] EXCEPT
                              !.ret = [count |-> 0, err |-> "rate limit cancelled"],
                              !.exit = "select"])]
    /\ cancelled' = cancelled \ {p}
    /\ pc' = [pc EXCEPT ![p] = ReturnTo(call[p])]
    /\ UNCHANGED <<pollerVars, batchVars, now, limiterVars, storeVars, ncalls, histVars>>

\* dl.mu.Lock(); lastReq := dl.lastRequest[domain]; dl.mu.Unlock()
AcquireLastReq(p) ==
    /\ pc[p] = "acquire_last"
    /\ mu[Lim(p)] = NoOwner
    /\ call' = [call EXCEPT ![p].lastReq =
                  IF Domain(p) \in DOMAIN lastRequest[Lim(p)]
                  THEN lastRequest[Lim(p)][Domain(p)]
                  ELSE ZeroTime]
    /\ pc' = [pc EXCEPT ![p] = "acquire_elapsed"]
    /\ UNCHANGED <<pollerVars, batchVars, now, cancelled, limiterVars, storeVars, ncalls, histVars>>

\* acquire returns nil: the request is dispatched
Dispatch(p) ==
    /\ call' = [call EXCEPT ![p].acquired = TRUE,
                            ![p].lastReq = ZeroTime, ![p].wakeAt = ZeroTime]
    /\ lastDispatch' = IF "dispatch" \in record
                       THEN [lastDispatch EXCEPT ![Lim(p)] = (Domain(p) :> now) @@ @]
                       ELSE lastDispatch
    /\ pc' = [pc EXCEPT ![p] = "parse"]

\* if !lastReq.IsZero() { elapsed := time.Since(lastReq); if elapsed < Delay {...} }
\* with nothing to wait for: return nil
AcquireNoDelay(p) ==
    /\ pc[p] = "acquire_elapsed"
    /\ \/ call[p].lastReq = ZeroTime
       \/ now - call[p].lastReq >= DelayBetweenDomainRequests
    /\ Dispatch(p)
    /\ UNCHANGED <<pollerVars, batchVars, now, cancelled, limiterVars, storeVars, ncalls, record, reportedNew,
                   prevFetch>>

\* delay := DelayBetweenDomainRequests - elapsed; the select on time.After(delay) starts
AcquireDelay(p) ==
    /\ pc[p] = "acquire_elapsed"
    /\ call[p].lastReq # ZeroTime
    /\ now - call[p].lastReq < DelayBetweenDomainRequests
    /\ call' = [call EXCEPT ![p].wakeAt =
                  now + (DelayBetweenDomainRequests - (now - call[p].lastReq))]
    /\ pc' = [pc EXCEPT ![p] = "acquire_sleep"]
    /\ UNCHANGED <<pollerVars, batchVars, now, cancelled, limiterVars, storeVars, ncalls, histVars>>

\* case <-time.After(delay): return nil
AcquireWake(p) ==
    /\ pc[p] = "acquire_sleep"
    /\ now >= call[p].wakeAt
    /\ Dispatch(p)
    /\ UNCHANGED <<pollerVars, batchVars, now, cancelled, limiterVars, storeVars, ncalls, record, reportedNew,
                   prevFetch>>

\* AcquireSleepCancelled as it would be without the  <-sem  of line 205
AcquireSleepCancelled_Leak(p) ==
    /\ pc[p] = "acquire_sleep"
    /\ Done(p)
    /\ call' = [call EXCEPT ![p] =
                  Returned([call[p] EXCEPT
                              !.ret = [count |-> 0, err |-> "rate limit cancelled"],
                              !.exit = "sleep"])]
    /\ cancelled' = cancelled \ {p}
    /\ pc' = [pc EXCEPT ![p] = ReturnTo(call[p])]
    /\ UNCHANGED <<pollerVars, batchVars, now, limiterVars, storeVars, ncalls, histVars>>

\* case <-ctx.Done(): <-sem; return ctx.Err()
AcquireSleepCancelled(p) ==
    /\ pc[p] = "acquire_sleep"
    /\ Done(p)
    /\ semaphores[Lim(p)][Domain(p)] > 0
    /\ semaphores' = [semaphores EXCEPT ![Lim(p)][Domain(p)] = @ - 1]
    /\ call' = [call EXCEPT ![p] =
                  Returned([call[p] EXCEPT
                              !.ret = [count |-> 0, err |-> "rate limit cancelled"],
                              !.held = @ - 1, !.exit = "sleep"])]
    /\ cancelled' = cancelled \ {p}
    /\ pc' = [pc EXCEPT ![p] = ReturnTo(call[p])]
    /\ UNCHANGED <<pollerVars, batchVars, now, lastRequest, mu, storeVars, ncalls, histVars>>

----------------------------------------------------------------------------
(* domainLimiter.release, run by FetchFeed's defer *)

\* dl.mu.Lock(); dl.lastRequest[domain] = time.Now()
ReleaseLock(p) ==
    /\ pc[p] = "release"
    /\ mu[Lim(p)] = NoOwner
    /\ mu' = [mu EXCEPT ![Lim(p)] = p]
    /\ lastRequest' = [lastRequest EXCEPT ![Lim(p)] = (Domain(p) :> now) @@ @]
    /\ call' = [call EXCEPT ![p].releases = @ + 1]
    /\ pc' = [pc EXCEPT ![p] = "release_recv"]
    /\ UNCHANGED <<pollerVars, batchVars, now, cancelled, semaphores, storeVars, ncalls, histVars>>

\* a release that records the time and returns without the  <-sem
ReleaseRecv_KeepToken(p) ==
    /\ pc[p] = "release_recv"
    /\ mu' = [mu EXCEPT ![Lim(p)] = NoOwner]
    /\ call' = [call EXCEPT ![p] =
                  Returned([call[p] EXCEPT !.held = @ - 1, !.exit = "return"])]
    /\ cancelled' = cancelled \ {p}
    /\ pc' = [pc EXCEPT ![p] = ReturnTo(call[p])]
    /\ UNCHANGED <<pollerVars, batchVars, now, semaphores, lastRequest, storeVars, ncalls, histVars>>

\* a release without the deferred dl.mu.Unlock()
ReleaseRecv_KeepMutex(p) ==
    /\ pc[p] = "release_recv"
    /\ Domain(p) \in DOMAIN semaphores[Lim(p)] => semaphores[Lim(p)][Domain(p)] > 0
    /\ semaphores' =
         IF Domain(p) \in DOMAIN semaphores[Lim(p)]
         THEN [semaphores EXCEPT ![Lim(p)][Domain(p)] = @ - 1]
         ELSE semaphores
    /\ call' = [call EXCEPT ![p] =
                  Returned([call[p] EXCEPT !.held = @ - 1, !.exit = "return"])]
    /\ cancelled' = cancelled \ {p}
    /\ pc' = [pc EXCEPT ![p] = ReturnTo(call[p])]
    /\ UNCHANGED <<pollerVars, batchVars, now, lastRequest, mu, storeVars, ncalls, histVars>>

\* if sem, ok := dl.semaphores[domain]; ok { <-sem }; the deferred dl.mu.Unlock();
\* FetchFeed returns
ReleaseRecv(p) ==
    /\ pc[p] = "release_recv"
    /\ Domain(p) \in DOMAIN semaphores[Lim(p)] => semaphores[Lim(p)][Domain(p)] > 0
    /\ semaphores' =
         IF Domain(p) \in DOMAIN semaphores[Lim(p)]
         THEN [semaphores EXCEPT ![Lim(p)][Domain(p)] = @ - 1]
         ELSE semaphores
    /\ mu' = [mu EXCEPT ![Lim(p)] = NoOwner]
    /\ call' = [call EXCEPT ![p] =
                  Returned([call[p] EXCEPT !.held = @ - 1, !.exit = "return"])]
    /\ cancelled' = cancelled \ {p}
    /\ pc' = [pc EXCEPT ![p] = ReturnTo(call[p])]
    /\ UNCHANGED <<pollerVars, batchVars, now, lastRequest, storeVars, ncalls, histVars>>

----------------------------------------------------------------------------
(* Fetcher.FetchFeed, after acquire *)

\* a FetchFeed that stores the message whole
Truncate_Whole(errMsg) == errMsg

\* if len(errMsg) > 200 { errMsg = errMsg[:200] }
Truncate(errMsg) ==
    IF Len(errMsg) > ErrMsgLimit THEN SubSeq(errMsg, 1, ErrMsgLimit) ELSE errMsg

\* the messages ParseURLWithContext can fail with: a cancelled context fails the
\* request with the context's error
ParseErrors(p) == IF Done(p) THEN {CtxErrMsg} ELSE ErrMsgs \ {CtxErrMsg}

\* ParseFail as it would be if release were called on the success path only
\* instead of deferred
ParseFail_NoRelease(p, msg, ok) ==
    /\ pc[p] = "parse"
    /\ msg \in ParseErrors(p)
    /\ UpdateFeedError(call[p].feed.ID, Truncate(msg), ok)
    /\ call' = [call EXCEPT ![p] =
                  Returned([call[p] EXCEPT !.ret = [count |-> 0, err |-> "parse feed"],
                                           !.exit = "return"])]
    /\ cancelled' = cancelled \ {p}
    /\ pc' = [pc EXCEPT ![p] = ReturnTo(call[p])]
    /\ UNCHANGED <<pollerVars, batchVars, now, limiterVars, items, itemLink, ncalls, histVars>>

\* parsed, err := f.parser.ParseURLWithContext(feed.URL, ctx) with err != nil:
\* _ = f.db.UpdateFeedError(feed.ID, errMsg); return 0, fmt.Errorf("parse feed ...")
\* (ok: whether storage accepted the write)
ParseFail(p, msg, ok) ==
    /\ pc[p] = "parse"
    /\ msg \in ParseErrors(p)
    /\ UpdateFeedError(call[p].feed.ID, Truncate(msg), ok)
    /\ call' = [call EXCEPT ![p].ret = [count |-> 0, err |-> "parse feed"],
                            ![p].errMsg = IF "errMsg" \in record THEN msg ELSE @,
                            ![p].dbErrs = DbErrs(p, "error", ok)]
    /\ pc' = [pc EXCEPT ![p] = "release"]
    /\ UNCHANGED <<pollerVars, batchVars, now, cancelled, limiterVars, items, itemLink, ncalls, histVars>>

\* parsed.Title != "" && parsed.Title != feed.Title && feed.Title == feed.URL
TitleDiffers(feed, parsed) ==
    /\ parsed.Title # ""
    /\ parsed.Title # feed.Title
    /\ feed.Title = feed.URL

\* err == nil: the title update, then now := time.Now(); newCount := 0
ParseOk(p, parsed, ok) ==
    /\ pc[p] = "parse"
    /\ ~Done(p)
    /\ feeds' = IF TitleDiffers(call[p].feed, parsed)
                THEN UpdateFeedTitle(feeds, call[p].feed.ID, parsed.Title, ok)
                ELSE feeds
    /\ call' = [call EXCEPT ![p].parsed = parsed, ![p].idx = 1,
                            ![p].now = now, ![p].newCount = 0,
                            ![p].dbErrs = IF TitleDiffers(call[p].feed, parsed)
                                          THEN DbErrs(p, "title", ok) ELSE @]
    /\ pc' = [pc EXCEPT ![p] = "items"]
    /\ UNCHANGED <<pollerVars, batchVars, now, cancelled, limiterVars, items, itemLink, ncalls, histVars>>

\* history: q's FetchFeed of feed f is under way (it has not finished its items)
\* while another call inserts a row of f
Overlaps(q, f) ==
    /\ "overlap" \in record
    /\ pc[q] \in {"acquire", "acquire_select", "acquire_last", "acquire_elapsed",
                  "acquire_sleep", "parse", "items"}
    /\ call[q].feed.ID = f

\* guid := item.GUID; if guid == "" { guid = item.Link }
DedupKey_GuidOnly(item) == item.GUID

DedupKey(item) == IF item.GUID = "" THEN item.Link ELSE item.GUID

\* an iteration that gives up the feed when AddItem returns an error
StoreItem_AbortOnError(p, ok) ==
    /\ pc[p] = "items"
    /\ call[p].idx <= Len(call[p].parsed.Items)
    /\ LET guid == DedupKey(call[p].parsed.Items[call[p].idx])
           stored == guid # "" /\ ok
           isNew == stored /\ AddItemIsNew(call[p].feed.ID, guid)
           failed == guid # "" /\ ~ok
       IN  /\ items' = IF stored THEN AddItem(call[p].feed.ID, guid) ELSE items
           /\ itemLink' = IF stored
                          THEN AddItemLink(call[p].feed.ID, guid,
                                           call[p].parsed.Items[call[p].idx].Link)
                          ELSE itemLink
           /\ reportedNew' = IF isNew
                             THEN reportedNew (+) SetToBag({<<call[p].feed.ID, guid>>})
                             ELSE reportedNew
           /\ call' = [call EXCEPT ![p].idx = @ + 1,
                                   ![p].newCount = IF isNew THEN @ + 1 ELSE @,
                                   ![p].dbErrs = IF guid # ""
                                                 THEN DbErrs(p, "item", ok)
                                                 ELSE @,
                                   ![p].ret = IF failed
                                              THEN [count |-> 0, err |-> "add item"]
                                              ELSE @]
           /\ pc' = [pc EXCEPT ![p] = IF failed THEN "release" ELSE @]
    /\ UNCHANGED <<pollerVars, batchVars, now, cancelled, limiterVars, feeds, ncalls, record, lastDispatch,
                   prevFetch>>

\* one iteration of  for _, item := range parsed.Items
\* (ok: whether f.db.AddItem returned without error)
StoreItem(p, ok) ==
    /\ pc[p] = "items"
    /\ call[p].idx <= Len(call[p].parsed.Items)
    /\ LET guid == DedupKey(call[p].parsed.Items[call[p].idx])
           stored == guid # "" /\ ok
           isNew == stored /\ AddItemIsNew(call[p].feed.ID, guid)
       IN  /\ items' = IF stored THEN AddItem(call[p].feed.ID, guid) ELSE items
           /\ itemLink' = IF stored
                          THEN AddItemLink(call[p].feed.ID, guid,
                                           call[p].parsed.Items[call[p].idx].Link)
                          ELSE itemLink
           /\ reportedNew' = IF isNew
                             THEN reportedNew (+) SetToBag({<<call[p].feed.ID, guid>>})
                             ELSE reportedNew
           /\ call' = [q \in Procs |->
                        IF q = p
                        THEN [call[p] EXCEPT !.idx = @ + 1,
                                             !.newCount = IF isNew THEN @ + 1 ELSE @,
                                             !.dbErrs = IF guid # ""
                                                        THEN DbErrs(p, "item", ok)
                                                        ELSE @]
                        ELSE IF isNew /\ Overlaps(q, call[p].feed.ID)
                             THEN [call[q] EXCEPT !.overlap = TRUE]
                             ELSE call[q]]
    /\ UNCHANGED <<pollerVars, batchVars, now, cancelled, limiterVars, feeds, pc, ncalls, record, lastDispatch,
                   prevFetch>>

\* f.db.UpdateFeedLastFetched(feed.ID, now); return newCount, nil
FinishFetch(p, ok) ==
    /\ pc[p] = "items"
    /\ call[p].idx > Len(call[p].parsed.Items)
    /\ UpdateFeedLastFetched(call[p].feed.ID, call[p].now, ok)
    /\ call' = [call EXCEPT ![p].ret = [count |-> call[p].newCount, err |-> "nil"],
                            ![p].parsed = NoParsed, ![p].idx = 1, ![p].newCount = 0,
                            ![p].dbErrs = DbErrs(p, "last_fetched", ok)]
    /\ prevFetch' = IF "prev" \in record
                    THEN [prevFetch EXCEPT ![call[p].feed.ID] =
                            [content |-> call[p].parsed,
                             clean |-> "item" \notin call[p].dbErrs, any |-> TRUE]]
                    ELSE prevFetch
    /\ pc' = [pc EXCEPT ![p] = "release"]
    /\ UNCHANGED <<pollerVars, batchVars, now, cancelled, limiterVars, items, itemLink, ncalls, record, lastDispatch,
                   reportedNew>>

\* the steps of the FetchFeed calls in progress: the origin answers with one of the
\* contents CS or fails with one of the messages ES, and storage answers each write
\* with one of OKS (TRUE: done, FALSE: an error)
FetchFeedNext(CS, ES, OKS) ==
    \/ \E p \in Procs : AcquireGetSem(p)
    \/ \E p \in Procs : AcquireSend(p)
    \/ \E p \in Procs : AcquireCancelled(p)
    \/ \E p \in Procs : AcquireLastReq(p)
    \/ \E p \in Procs : AcquireNoDelay(p)
    \/ \E p \in Procs : AcquireDelay(p)
    \/ \E p \in Procs : AcquireWake(p)
    \/ \E p \in Procs : AcquireSleepCancelled(p)
    \/ \E p \in Procs, msg \in ES \cup {CtxErrMsg}, ok \in OKS : ParseFail(p, msg, ok)
    \/ \E p \in Procs, parsed \in CS, ok \in OKS : ParseOk(p, parsed, ok)
    \/ \E p \in Procs, ok \in OKS : StoreItem(p, ok)
    \/ \E p \in Procs, ok \in OKS : FinishFetch(p, ok)
    \/ \E p \in Procs : ReleaseLock(p)
    \/ \E p \in Procs : ReleaseRecv(p)

----------------------------------------------------------------------------
(* Fetcher.FetchAll *)

\* no FetchAll call was made
NoBatch ==
    [ caller |-> NoOwner, fetcher |-> "server", feeds |-> <<>>, i |-> 1,
      results |-> <<>>, err |-> "none", completed |-> 0, fetched |-> <<>>,
      started |-> <<>>, cancelAt |-> "none", cancelFetched |-> 0, dropped |-> {} ]

\* make(chan T, n)
MakeChan(n) == [buf |-> <<>>, cap |-> n, closed |-> FALSE]

NoChan == MakeChan(0)

\* results[id] = count
SetResult(results, id, count) == (id :> count) @@ results

\* FetchResult{FeedID, NewItems, Error}
FetchResult(c) == [FeedID |-> c.feed.ID, NewItems |-> c.ret.count, Error |-> c.ret.err]

\* history: what FetchFeed returned for each feed of the batch
Fetched(c) == (c.feed.ID :> [err |-> c.ret.err, count |-> c.ret.count]) @@ batch.fetched

\* history: how often FetchFeed was started for each feed of the batch
Started(id) ==
    (id :> (IF id \in DOMAIN batch.started THEN batch.started[id] + 1 ELSE 1))
        @@ batch.started

\* the context of the batch is cancelled, or its deadline passes
\* (history: where the caller of FetchAll was, and how many feeds were fetched)
CancelBatch ==
    /\ batch.caller # NoOwner
    /\ pc[batch.caller] # "returned"
    /\ BatchCtx \notin cancelled
    /\ cancelled' = cancelled \cup {BatchCtx}
    /\ batch' = [batch EXCEPT !.cancelAt = pc[batch.caller],
                              !.cancelFetched = Cardinality(DOMAIN batch.fetched)]
    /\ UNCHANGED <<now, limiterVars, storeVars, pc, call, ncalls, histVars,
                   pollerVars, concurrency, poolVars>>

\* a FetchAll without the return for an empty feed list
FetchAll_NoEmptyReturn(b, fz, ok) ==
    /\ pc[b] \in {"idle", "poll_fetch"}
    /\ batch.caller = NoOwner
    /\ LET fs == GetAllFeeds
           started == [NoBatch EXCEPT !.caller = b, !.fetcher = fz]
       IN  IF ~ok
           THEN /\ batch' = [started EXCEPT !.err = "db"]
                /\ pc' = [pc EXCEPT ![b] = "returned"]
                /\ UNCHANGED poolVars
           ELSE IF concurrency[fz] <= 1
           THEN /\ batch' = [started EXCEPT !.feeds = fs]
                /\ pc' = [pc EXCEPT ![b] = "seq_loop"]
                /\ UNCHANGED poolVars
           ELSE /\ batch' = [started EXCEPT !.feeds = fs]
                /\ feedChan' = MakeChan(Len(fs))
                /\ resultChan' = MakeChan(Len(fs))
                /\ wg' = concurrency[fz]
                /\ sender' = [pc |-> "loop", i |-> 1]
                /\ closer' = "wait"
                /\ pc' = [p \in Procs |->
                            IF p = b THEN "collect"
                            ELSE IF p \in Workers(concurrency[fz]) /\ pc[p] = "w_off"
                            THEN "w_range"
                            ELSE pc[p]]
    /\ UNCHANGED <<now, cancelled, limiterVars, storeVars, call, ncalls, histVars,
                   pollerVars, concurrency>>

\* a FetchAll that starts the worker pool whatever the storage supports
FetchAll_AlwaysPool(b, fz, ok) ==
    /\ pc[b] \in {"idle", "poll_fetch"}
    /\ batch.caller = NoOwner
    /\ LET fs == GetAllFeeds
           started == [NoBatch EXCEPT !.caller = b, !.fetcher = fz]
       IN  IF ~ok
           THEN /\ batch' = [started EXCEPT !.err = "db"]
                /\ pc' = [pc EXCEPT ![b] = "returned"]
                /\ UNCHANGED poolVars
           ELSE IF Len(fs) = 0
           THEN /\ batch' = [started EXCEPT !.err = "nil"]
                /\ pc' = [pc EXCEPT ![b] = "returned"]
                /\ UNCHANGED poolVars
           ELSE IF concurrency[fz] < 1
           THEN /\ batch' = [started EXCEPT !.feeds = fs]
                /\ pc' = [pc EXCEPT ![b] = "seq_loop"]
                /\ UNCHANGED poolVars
           ELSE /\ batch' = [started EXCEPT !.feeds = fs]
                /\ feedChan' = MakeChan(Len(fs))
                /\ resultChan' = MakeChan(Len(fs))
                /\ wg' = concurrency[fz]
                /\ sender' = [pc |-> "loop", i |-> 1]
                /\ closer' = "wait"
                /\ pc' = [p \in Procs |->
                            IF p = b THEN "collect"
                            ELSE IF p \in Workers(concurrency[fz]) /\ pc[p] = "w_off"
                            THEN "w_range"
                            ELSE pc[p]]
    /\ UNCHANGED <<now, cancelled, limiterVars, storeVars, call, ncalls, histVars,
                   pollerVars, concurrency>>

\* a FetchAll whose pool has one worker whatever the concurrency
FetchAll_OneWorker(b, fz, ok) ==
    /\ pc[b] \in {"idle", "poll_fetch"}
    /\ batch.caller = NoOwner
    /\ LET fs == GetAllFeeds
           started == [NoBatch EXCEPT !.caller = b, !.fetcher = fz]
       IN  IF ~ok
           THEN /\ batch' = [started EXCEPT !.err = "db"]
                /\ pc' = [pc EXCEPT ![b] = "returned"]
                /\ UNCHANGED poolVars
           ELSE IF Len(fs) = 0
           THEN /\ batch' = [started EXCEPT !.err = "nil"]
                /\ pc' = [pc EXCEPT ![b] = "returned"]
                /\ UNCHANGED poolVars
           ELSE IF concurrency[fz] <= 1
           THEN /\ batch' = [started EXCEPT !.feeds = fs]
                /\ pc' = [pc EXCEPT ![b] = "seq_loop"]
                /\ UNCHANGED poolVars
           ELSE /\ batch' = [started EXCEPT !.feeds = fs]
                /\ feedChan' = MakeChan(Len(fs))
                /\ resultChan' = MakeChan(Len(fs))
                /\ wg' = 1
                /\ sender' = [pc |-> "loop", i |-> 1]
                /\ closer' = "wait"
                /\ pc' = [p \in Procs |->
                            IF p = b THEN "collect"
                            ELSE IF p \in Workers(1) /\ pc[p] = "w_off"
                            THEN "w_range"
                            ELSE pc[p]]
    /\ UNCHANGED <<now, cancelled, limiterVars, storeVars, call, ncalls, histVars,
                   pollerVars, concurrency>>

\* FetchAll(ctx): feeds, err := f.db.GetAllFeeds(), then the empty case, then
\* fetchSequential or fetchParallel up to the start of its goroutines
\* (ok: whether GetAllFeeds returned without error)
FetchAll(b, fz, ok) ==
    /\ pc[b] \in {"idle", "poll_fetch"}
    /\ batch.caller = NoOwner
    /\ LET fs == GetAllFeeds
           started == [NoBatch EXCEPT !.caller = b, !.fetcher = fz]
       IN  IF ~ok
           THEN /\ batch' = [started EXCEPT !.err = "db"]
                /\ pc' = [pc EXCEPT ![b] = "returned"]
                /\ UNCHANGED poolVars
           ELSE IF Len(fs) = 0
           THEN /\ batch' = [started EXCEPT !.err = "nil"]
                /\ pc' = [pc EXCEPT ![b] = "returned"]
                /\ UNCHANGED poolVars
           ELSE IF concurrency[fz] <= 1
           THEN /\ batch' = [started EXCEPT !.feeds = fs]
                /\ pc' = [pc EXCEPT ![b] = "seq_loop"]
                /\ UNCHANGED poolVars
           ELSE /\ batch' = [started EXCEPT !.feeds = fs]
                /\ feedChan' = MakeChan(Len(fs))
                /\ resultChan' = MakeChan(Len(fs))
                /\ wg' = concurrency[fz]
                /\ sender' = [pc |-> "loop", i |-> 1]
                /\ closer' = "wait"
                /\ pc' = [p \in Procs |->
                            IF p = b THEN "collect"
                            ELSE IF p \in Workers(concurrency[fz]) /\ pc[p] = "w_off"
                            THEN "w_range"
                            ELSE pc[p]]
    /\ UNCHANGED <<now, cancelled, limiterVars, storeVars, call, ncalls, histVars,
                   pollerVars, concurrency>>

\* fetchSequential: the loop is over: return results, nil
fetchSequentialReturn(b) ==
    /\ pc[b] = "seq_loop"
    /\ batch.i > Len(batch.feeds)
    /\ batch' = [batch EXCEPT !.err = "nil"]
    /\ pc' = [pc EXCEPT ![b] = "returned"]
    /\ UNCHANGED <<now, cancelled, limiterVars, storeVars, call, ncalls, histVars,
                   pollerVars, concurrency, poolVars>>

\* fetchSequential: case <-ctx.Done(): return results, ctx.Err()
fetchSequentialCancelled(b) ==
    /\ pc[b] = "seq_loop"
    /\ batch.i <= Len(batch.feeds)
    /\ BatchCtx \in cancelled
    /\ batch' = [batch EXCEPT !.err = "ctx"]
    /\ pc' = [pc EXCEPT ![b] = "returned"]
    /\ UNCHANGED <<now, cancelled, limiterVars, storeVars, call, ncalls, histVars,
                   pollerVars, concurrency, poolVars>>

\* a sequential loop that takes the feeds from the end of the list
fetchSequentialFetch_Reverse(b) ==
    /\ pc[b] = "seq_loop"
    /\ batch.i <= Len(batch.feeds)
    /\ BatchCtx \notin cancelled
    /\ call' = [call EXCEPT ![b] =
                  NewCall("seq", batch.fetcher, BatchCtx,
                          batch.feeds[Len(batch.feeds) + 1 - batch.i])]
    /\ batch' = [batch EXCEPT
                   !.started = Started(batch.feeds[Len(batch.feeds) + 1 - batch.i].ID)]
    /\ pc' = [pc EXCEPT ![b] = "acquire"]
    /\ UNCHANGED <<now, cancelled, limiterVars, storeVars, ncalls, histVars,
                   pollerVars, concurrency, poolVars>>

\* fetchSequential: default: count, err := f.FetchFeed(ctx, feed)
fetchSequentialFetch(b) ==
    /\ pc[b] = "seq_loop"
    /\ batch.i <= Len(batch.feeds)
    /\ BatchCtx \notin cancelled
    /\ call' = [call EXCEPT ![b] =
                  NewCall("seq", batch.fetcher, BatchCtx, batch.feeds[batch.i])]
    /\ batch' = [batch EXCEPT !.started = Started(batch.feeds[batch.i].ID)]
    /\ pc' = [pc EXCEPT ![b] = "acquire"]
    /\ UNCHANGED <<now, cancelled, limiterVars, storeVars, ncalls, histVars,
                   pollerVars, concurrency, poolVars>>

\* a sequential loop that gives up at the first failed feed
fetchSequentialNext_Abort(b) ==
    /\ pc[b] = "seq_ret"
    /\ batch' = [batch EXCEPT
                   !.results = IF call[b].ret.err # "nil" THEN @
                               ELSE SetResult(@, call[b].feed.ID, call[b].ret.count),
                   !.i = IF call[b].ret.err # "nil" THEN Len(batch.feeds) + 1 ELSE @ + 1,
                   !.fetched = Fetched(call[b])]
    /\ call' = [call EXCEPT ![b] = NoCall]
    /\ pc' = [pc EXCEPT ![b] = "seq_loop"]
    /\ UNCHANGED <<now, cancelled, limiterVars, storeVars, ncalls, histVars,
                   pollerVars, concurrency, poolVars>>

\* fetchSequential: if err != nil { continue }; results[feed.ID] = count
fetchSequentialNext(b) ==
    /\ pc[b] = "seq_ret"
    /\ batch' = [batch EXCEPT
                   !.results = IF call[b].ret.err # "nil" THEN @
                               ELSE SetResult(@, call[b].feed.ID, call[b].ret.count),
                   !.i = @ + 1,
                   !.fetched = Fetched(call[b])]
    /\ call' = [call EXCEPT ![b] = NoCall]
    /\ pc' = [pc EXCEPT ![b] = "seq_loop"]
    /\ UNCHANGED <<now, cancelled, limiterVars, storeVars, ncalls, histVars,
                   pollerVars, concurrency, poolVars>>

\* a worker that reads the feed and leaves it in the channel
WorkerRecv_Peek(w) ==
    /\ pc[w] = "w_range"
    /\ Len(feedChan.buf) > 0
    /\ call' = [call EXCEPT ![w] = [NoCall EXCEPT !.caller = "worker",
                                                  !.feed = Head(feedChan.buf)]]
    /\ pc' = [pc EXCEPT ![w] = "w_check"]
    /\ UNCHANGED <<now, cancelled, limiterVars, storeVars, ncalls, histVars,
                   pollerVars, concurrency, batch, feedChan, resultChan, wg, sender, closer>>

\* worker: for feed := range feedChan, a feed is there
WorkerRecv(w) ==
    /\ pc[w] = "w_range"
    /\ Len(feedChan.buf) > 0
    /\ call' = [call EXCEPT ![w] = [NoCall EXCEPT !.caller = "worker",
                                                  !.feed = Head(feedChan.buf)]]
    /\ feedChan' = [feedChan EXCEPT !.buf = Tail(@)]
    /\ pc' = [pc EXCEPT ![w] = "w_check"]
    /\ UNCHANGED <<now, cancelled, limiterVars, storeVars, ncalls, histVars,
                   pollerVars, concurrency, batch, resultChan, wg, sender, closer>>

\* worker: feedChan is closed and empty: the range loop ends, wg.Done()
WorkerExit(w) ==
    /\ pc[w] = "w_range"
    /\ Len(feedChan.buf) = 0
    /\ feedChan.closed
    /\ wg' = wg - 1
    /\ pc' = [pc EXCEPT ![w] = "w_exit"]
    /\ UNCHANGED <<now, cancelled, limiterVars, storeVars, call, ncalls, histVars,
                   pollerVars, concurrency, batch, feedChan, resultChan, sender, closer>>

\* a worker that returns on ctx.Done() without wg.Done()
WorkerCancelled_NoDone(w) ==
    /\ pc[w] = "w_check"
    /\ BatchCtx \in cancelled
    /\ batch' = [batch EXCEPT !.dropped = @ \cup {call[w].feed.ID}]
    /\ call' = [call EXCEPT ![w] = NoCall]
    /\ pc' = [pc EXCEPT ![w] = "w_exit"]
    /\ UNCHANGED <<now, cancelled, limiterVars, storeVars, ncalls, histVars,
                   pollerVars, concurrency, feedChan, resultChan, wg, sender, closer>>

\* worker: case <-ctx.Done(): return, wg.Done()
\* (history: the feed the worker had taken from feedChan)
WorkerCancelled(w) ==
    /\ pc[w] = "w_check"
    /\ BatchCtx \in cancelled
    /\ wg' = wg - 1
    /\ batch' = [batch EXCEPT !.dropped = @ \cup {call[w].feed.ID}]
    /\ call' = [call EXCEPT ![w] = NoCall]
    /\ pc' = [pc EXCEPT ![w] = "w_exit"]
    /\ UNCHANGED <<now, cancelled, limiterVars, storeVars, ncalls, histVars,
                   pollerVars, concurrency, feedChan, resultChan, sender, closer>>

\* a worker that fetches the feed it took without looking at the context
WorkerFetch_NoCheck(w) ==
    /\ pc[w] = "w_check"
    /\ call' = [call EXCEPT ![w] =
                  NewCall("worker", batch.fetcher, BatchCtx, call[w].feed)]
    /\ batch' = [batch EXCEPT !.started = Started(call[w].feed.ID)]
    /\ pc' = [pc EXCEPT ![w] = "acquire"]
    /\ UNCHANGED <<now, cancelled, limiterVars, storeVars, ncalls, histVars,
                   pollerVars, concurrency, poolVars>>

\* worker: default: count, err := f.FetchFeed(ctx, feed)
WorkerFetch(w) ==
    /\ pc[w] = "w_check"
    /\ BatchCtx \notin cancelled
    /\ call' = [call EXCEPT ![w] =
                  NewCall("worker", batch.fetcher, BatchCtx, call[w].feed)]
    /\ batch' = [batch EXCEPT !.started = Started(call[w].feed.ID)]
    /\ pc' = [pc EXCEPT ![w] = "acquire"]
    /\ UNCHANGED <<now, cancelled, limiterVars, storeVars, ncalls, histVars,
                   pollerVars, concurrency, poolVars>>

\* worker: resultChan <- FetchResult{...}
WorkerSend(w) ==
    /\ pc[w] = "w_send"
    /\ Len(resultChan.buf) < resultChan.cap
    /\ resultChan' = [resultChan EXCEPT !.buf = Append(@, FetchResult(call[w]))]
    /\ batch' = [batch EXCEPT !.fetched = Fetched(call[w])]
    /\ call' = [call EXCEPT ![w] = NoCall]
    /\ pc' = [pc EXCEPT ![w] = "w_range"]
    /\ UNCHANGED <<now, cancelled, limiterVars, storeVars, ncalls, histVars,
                   pollerVars, concurrency, feedChan, wg, sender, closer>>

\* sender: case feedChan <- feed
SendFeed ==
    /\ sender.pc = "loop"
    /\ sender.i <= Len(batch.feeds)
    /\ Len(feedChan.buf) < feedChan.cap
    /\ feedChan' = [feedChan EXCEPT !.buf = Append(@, batch.feeds[sender.i])]
    /\ sender' = [sender EXCEPT !.i = @ + 1]
    /\ UNCHANGED <<now, cancelled, limiterVars, storeVars, pc, call, ncalls, histVars,
                   pollerVars, concurrency, batch, resultChan, wg, closer>>

\* sender: case <-ctx.Done(): break, which leaves the select and not the loop
SendSkip ==
    /\ sender.pc = "loop"
    /\ sender.i <= Len(batch.feeds)
    /\ BatchCtx \in cancelled
    /\ sender' = [sender EXCEPT !.i = @ + 1]
    /\ UNCHANGED <<now, cancelled, limiterVars, storeVars, pc, call, ncalls, histVars,
                   pollerVars, concurrency, batch, feedChan, resultChan, wg, closer>>

\* sender: close(feedChan)
SendClose ==
    /\ sender.pc = "loop"
    /\ sender.i > Len(batch.feeds)
    /\ feedChan' = [feedChan EXCEPT !.closed = TRUE]
    /\ sender' = [sender EXCEPT !.pc = "done"]
    /\ UNCHANGED <<now, cancelled, limiterVars, storeVars, pc, call, ncalls, histVars,
                   pollerVars, concurrency, batch, resultChan, wg, closer>>

\* a closer that closes resultChan without wg.Wait()
CloseResults_NoWait ==
    /\ closer = "wait"
    /\ resultChan' = [resultChan EXCEPT !.closed = TRUE]
    /\ closer' = "done"
    /\ UNCHANGED <<now, cancelled, limiterVars, storeVars, pc, call, ncalls, histVars,
                   pollerVars, concurrency, batch, feedChan, wg, sender>>

\* closer: wg.Wait(); close(resultChan)
CloseResults ==
    /\ closer = "wait"
    /\ wg = 0
    /\ resultChan' = [resultChan EXCEPT !.closed = TRUE]
    /\ closer' = "done"
    /\ UNCHANGED <<now, cancelled, limiterVars, storeVars, pc, call, ncalls, histVars,
                   pollerVars, concurrency, batch, feedChan, wg, sender>>

\* a result loop that keeps the failed results too
CollectResult_KeepFailed(b) ==
    /\ pc[b] = "collect"
    /\ Len(resultChan.buf) > 0
    /\ LET result == Head(resultChan.buf)
       IN  batch' = [batch EXCEPT
                       !.results = SetResult(@, result.FeedID, result.NewItems),
                       !.completed = @ + 1]
    /\ resultChan' = [resultChan EXCEPT !.buf = Tail(@)]
    /\ UNCHANGED <<now, cancelled, limiterVars, storeVars, pc, call, ncalls, histVars,
                   pollerVars, concurrency, feedChan, wg, sender, closer>>

\* fetchParallel: for result := range resultChan: if result.Error != nil
\* { continue }; results[result.FeedID] = result.NewItems; completed++
CollectResult(b) ==
    /\ pc[b] = "collect"
    /\ Len(resultChan.buf) > 0
    /\ LET result == Head(resultChan.buf)
       IN  batch' = IF result.Error # "nil"
                    THEN batch
                    ELSE [batch EXCEPT
                            !.results = SetResult(@, result.FeedID, result.NewItems),
                            !.completed = @ + 1]
    /\ resultChan' = [resultChan EXCEPT !.buf = Tail(@)]
    /\ UNCHANGED <<now, cancelled, limiterVars, storeVars, pc, call, ncalls, histVars,
                   pollerVars, concurrency, feedChan, wg, sender, closer>>

\* fetchParallel: resultChan is closed and empty: return results, nil
CollectReturn(b) ==
    /\ pc[b] = "collect"
    /\ Len(resultChan.buf) = 0
    /\ resultChan.closed
    /\ batch' = [batch EXCEPT !.err = "nil"]
    /\ pc' = [pc EXCEPT ![b] = "returned"]
    /\ UNCHANGED <<now, cancelled, limiterVars, storeVars, call, ncalls, histVars,
                   pollerVars, concurrency, poolVars>>

\* the steps of FetchAll after its start
FetchAllNext ==
    \/ \E b \in Procs : fetchSequentialReturn(b)
    \/ \E b \in Procs : fetchSequentialCancelled(b)
    \/ \E b \in Procs : fetchSequentialFetch(b)
    \/ \E b \in Procs : fetchSequentialNext(b)
    \/ \E w \in Procs : WorkerRecv(w)
    \/ \E w \in Procs : WorkerExit(w)
    \/ \E w \in Procs : WorkerCancelled(w)
    \/ \E w \in Procs : WorkerFetch(w)
    \/ \E w \in Procs : WorkerSend(w)
    \/ SendFeed
    \/ SendSkip
    \/ SendClose
    \/ CloseResults
    \/ \E b \in Procs : CollectResult(b)
    \/ \E b \in Procs : CollectReturn(b)

----------------------------------------------------------------------------
(* The Poller *)

\* the polling goroutine and the goroutine calling Stop
PollerProc == "b"

\* the value the settings table is created with
DefaultSetting == <<"1", "5">>

Digit == [c \in {"0", "1", "2", "3", "4", "5", "6", "7", "8", "9"} |->
            CASE c = "0" -> 0 [] c = "1" -> 1 [] c = "2" -> 2 [] c = "3" -> 3
              [] c = "4" -> 4 [] c = "5" -> 5 [] c = "6" -> 6 [] c = "7" -> 7
              [] c = "8" -> 8 [] c = "9" -> 9]

RECURSIVE ScanDigits(_, _, _)
\* the digits of val from position i on, up to the first character that is none
ScanDigits(val, i, acc) ==
    IF i > Len(val) \/ val[i] \notin DOMAIN Digit
    THEN acc
    ELSE ScanDigits(val, i + 1, acc * 10 + Digit[val[i]])

\* var mins int; fmt.Sscanf(val, "%d", &mins): an optional sign and digits; mins
\* stays 0 when val does not begin with a number
Sscanf(val) ==
    LET signed == Len(val) > 0 /\ val[1] \in {"-", "+"}
        first == IF signed THEN 2 ELSE 1
    IN  IF first > Len(val) \/ val[first] \notin DOMAIN Digit
        THEN 0
        ELSE IF signed /\ val[1] = "-"
        THEN 0 - ScanDigits(val, first, 0)
        ELSE ScanDigits(val, first, 0)

\* DB.GetPollingInterval: the default when the setting cannot be read, and never
\* less than 15
GetPollingInterval(val, ok) ==
    IF ~ok
    THEN 15
    ELSE LET mins == Sscanf(val)
         IN  IF mins < 15 THEN 15 ELSE mins

\* a time.Duration: a signed integer of DurationBits bits
Duration(n) ==
    LET m == n % (2 ^ DurationBits)
    IN  IF m >= 2 ^ (DurationBits - 1) THEN m - 2 ^ DurationBits ELSE m

\* NewPoller: stopChan is open, no goroutine is running
NoPoller ==
    [ started |-> FALSE, stopChan |-> "open", wg |-> 0, interval |-> 0, wait |-> 0,
      cycles |-> 0, stop |-> "none", stopAt |-> "none", stopBatches |-> 0 ]

\* the FetchAll calls the loop has made: one in each cycle, the present cycle's
\* once the loop is past the call
BatchesBegun ==
    IF pc[PollerProc] = "poll_fetch" THEN poller.cycles - 1 ELSE poller.cycles

\* Poller.Start: wg.Add(1) and the goroutine starts
PollerStart ==
    /\ ~poller.started
    /\ pc[PollerProc] = "idle"
    /\ poller' = [poller EXCEPT !.started = TRUE, !.wg = 1]
    /\ pc' = [pc EXCEPT ![PollerProc] = "poll_top"]
    /\ UNCHANGED <<now, cancelled, limiterVars, storeVars, call, ncalls, histVars,
                   setting, batchVars>>

\* the top of the loop: read the interval, raise it to the minimum, make the context
\* of the batch
PollerInterval(ok) ==
    /\ pc[PollerProc] = "poll_top"
    /\ poller.cycles < MaxCycles
    /\ LET interval == GetPollingInterval(setting, ok)
       IN  poller' = [poller EXCEPT
                        !.interval = IF interval < MinPollingIntervalMinutes
                                     THEN MinPollingIntervalMinutes
                                     ELSE interval,
                        !.cycles = @ + 1]
    /\ cancelled' = cancelled \ {BatchCtx}
    /\ batch' = NoBatch
    /\ feedChan' = NoChan
    /\ resultChan' = NoChan
    /\ wg' = 0
    /\ sender' = [pc |-> "off", i |-> 1]
    /\ closer' = "off"
    /\ pc' = [p \in Procs |->
                IF p = PollerProc THEN "poll_fetch"
                ELSE IF p \in PoolProcs THEN "w_off" ELSE pc[p]]
    /\ UNCHANGED <<now, limiterVars, storeVars, call, ncalls, histVars, setting,
                   concurrency>>

\* a loop that goes on to the next cycle without the select
PollerWait_NoSelect ==
    /\ poller.started
    /\ pc[PollerProc] = "returned"
    /\ cancelled' = cancelled \cup {BatchCtx}
    /\ poller' = [poller EXCEPT !.wait = Duration(poller.interval * Minute)]
    /\ pc' = [pc EXCEPT ![PollerProc] = "poll_top"]
    /\ UNCHANGED <<now, limiterVars, storeVars, call, ncalls, histVars, setting,
                   batchVars>>

\* FetchAll has returned: cancel(), the log, and the timer of the select
PollerWait ==
    /\ poller.started
    /\ pc[PollerProc] = "returned"
    /\ cancelled' = cancelled \cup {BatchCtx}
    /\ poller' = [poller EXCEPT !.wait = Duration(poller.interval * Minute)]
    /\ pc' = [pc EXCEPT ![PollerProc] = "poll_wait"]
    /\ UNCHANGED <<now, limiterVars, storeVars, call, ncalls, histVars, setting,
                   batchVars>>

\* case <-p.stopChan: return, and the deferred wg.Done()
PollerStopped ==
    /\ pc[PollerProc] = "poll_wait"
    /\ poller.stopChan = "closed"
    /\ poller' = [poller EXCEPT !.wg = @ - 1]
    /\ pc' = [pc EXCEPT ![PollerProc] = "exited"]
    /\ UNCHANGED <<now, cancelled, limiterVars, storeVars, call, ncalls, histVars,
                   setting, batchVars>>

\* case <-time.After(...): the next cycle. The goroutine is woken by whichever
\* of the two channels is ready first: a timer of a positive duration is not ready
\* when the select begins, so it is taken only while stopChan is open; a timer
\* of a duration of zero or less is ready from the start, and the select chooses
\* between two ready cases
PollerTimer ==
    /\ pc[PollerProc] = "poll_wait"
    /\ poller.stopChan = "open" \/ poller.wait <= 0
    /\ pc' = [pc EXCEPT ![PollerProc] = "poll_top"]
    /\ UNCHANGED <<now, cancelled, limiterVars, storeVars, call, ncalls, histVars,
                   pollerVars, batchVars>>

\* Poller.Stop: close(p.stopChan)
\* (history: where the polling goroutine was, and the FetchAll calls it had made)
PollerStop ==
    /\ poller.started
    /\ poller.stop = "none"
    /\ poller' = [poller EXCEPT !.stopChan = "closed", !.stop = "waiting",
                                !.stopAt = pc[PollerProc],
                                !.stopBatches = BatchesBegun]
    /\ UNCHANGED <<now, cancelled, limiterVars, storeVars, pc, call, ncalls, histVars,
                   setting, batchVars>>

\* a Stop that does not wait for the goroutine
PollerStopReturn_NoWait ==
    /\ poller.stop = "waiting"
    /\ poller' = [poller EXCEPT !.stop = "returned"]
    /\ UNCHANGED <<now, cancelled, limiterVars, storeVars, pc, call, ncalls, histVars,
                   setting, batchVars>>

\* Poller.Stop: p.wg.Wait() returns
PollerStopReturn ==
    /\ poller.stop = "waiting"
    /\ poller.wg = 0
    /\ poller' = [poller EXCEPT !.stop = "returned"]
    /\ UNCHANGED <<now, cancelled, limiterVars, storeVars, pc, call, ncalls, histVars,
                   setting, batchVars>>

----------------------------------------------------------------------------
(* The initial state: the feeds are subscribed, nothing was fetched *)

InitStore(FS) ==
    /\ feeds = [f \in FS |->
                  [title |-> FeedURL[f], last_fetched |-> ZeroTime, last_error |-> <<>>]]
    /\ items = EmptyBag
    /\ itemLink = << >>

InitLimiters ==
    /\ semaphores = [fz \in Fetchers |-> <<>>]
    /\ lastRequest = [fz \in Fetchers |-> <<>>]
    /\ mu = [fz \in Fetchers |-> NoOwner]

\* the history is empty; a specification keeps the history named in R
InitHistory(R) ==
    /\ record = R
    /\ lastDispatch = [fz \in Fetchers |-> <<>>]
    /\ reportedNew = EmptyBag
    /\ prevFetch = [f \in Feeds |-> NoPrev]

\* the goroutines: the workers of the pool are not started
InitProcs(PS) ==
    /\ pc = [p \in PS |-> IF p \in PoolProcs THEN "w_off" ELSE "idle"]
    /\ call = [p \in PS |-> NoCall]
    /\ ncalls = 0

\* NewFetcher sets the concurrency of both Fetchers from the database type; no
\* FetchAll was called
InitBatch(conc) ==
    /\ concurrency = [fz \in Fetchers |-> conc]
    /\ batch = NoBatch
    /\ feedChan = NoChan
    /\ resultChan = NoChan
    /\ wg = 0
    /\ sender = [pc |-> "off", i |-> 1]
    /\ closer = "off"

\* NewPoller; the setting holds one of the values SV
InitPoller(SV) ==
    /\ poller = NoPoller
    /\ setting \in SV

----------------------------------------------------------------------------
(* SpecLimiter: three request goroutines (handleRefreshFeed) on one Fetcher *)

LimiterProcs == {"p1", "p2", "p3"}

LimiterContents == { Parsed("", <<Item("g1", "")>>) }

InitLimiter ==
    /\ now = TickStep
    /\ cancelled = {}
    /\ InitStore({1})
    /\ InitLimiters
    /\ InitHistory({"dispatch", "result"})
    /\ InitProcs(LimiterProcs)
    /\ InitBatch(MaxConcurrencySQLite)
    /\ InitPoller({DefaultSetting})

NextLimiter ==
    \/ Tick(TickStep)
    \/ \E p \in Procs : Cancel(p)
    \/ \E p \in Procs, f \in Feeds : CallFetchFeed(p, "server", f)
    \/ FetchFeedNext(LimiterContents, {<<"x">>}, {TRUE})

SpecLimiter == InitLimiter /\ [][NextLimiter]_vars

----------------------------------------------------------------------------
(* Spec: two request goroutines fetch the feeds, with overlapping fetches of  *)
(* one feed, failing origins and storage errors                              *)

FetchProcs == {"p1", "p2"}

\* what the origin serves: one entry with a GUID; then an entry whose link is that
\* GUID, and a second entry
FetchContents ==
    { Parsed("T", <<Item("g1", "l1")>>),
      Parsed("", <<Item("", "g1"), Item("g2", "")>>) }

Init ==
    /\ now = TickStep
    /\ cancelled = {}
    /\ InitStore({1})
    /\ InitLimiters
    /\ InitHistory({"start", "dbErrs"})
    /\ InitProcs(FetchProcs)
    /\ InitBatch(MaxConcurrencySQLite)
    /\ InitPoller({DefaultSetting})

Next ==
    \/ Tick(2 * TickStep)
    \/ \E p \in Procs : Cancel(p)
    \/ \E p \in Procs, f \in Feeds : CallFetchFeed(p, "server", f)
    \/ FetchFeedNext(FetchContents, {<<"x">>}, BOOLEAN)

Spec == Init /\ [][Next]_vars

----------------------------------------------------------------------------
(* SpecRefetch: two request goroutines fetch one feed again and again while  *)
(* the origin's content grows                                                *)

\* what the origin serves: first one entry; later that entry with its key in the
\* link only, a new entry, and an entry with neither GUID nor link
RefetchContents ==
    { Parsed("T", <<Item("g1", "l1")>>),
      Parsed("T", <<Item("", "g1"), Item("g2", "l2"), Item("", "")>>) }

InitRefetch ==
    /\ now = TickStep
    /\ cancelled = {}
    /\ InitStore({1})
    /\ InitLimiters
    /\ InitHistory({"prev", "item"})
    /\ InitProcs(FetchProcs)
    /\ InitBatch(MaxConcurrencySQLite)
    /\ InitPoller({DefaultSetting})

NextRefetch ==
    \/ Tick(2 * TickStep)
    \/ \E p \in Procs : Cancel(p)
    \/ \E p \in Procs, f \in Feeds : CallFetchFeed(p, "server", f)
    \/ FetchFeedNext(RefetchContents, {}, BOOLEAN)

SpecRefetch == InitRefetch /\ [][NextRefetch]_vars

(* SpecCount: the same goroutines and contents; each call remembers which keys  *)
(* were stored when it began and whether another call inserted meanwhile        *)
InitCount ==
    /\ now = TickStep
    /\ cancelled = {}
    /\ InitStore({1})
    /\ InitLimiters
    /\ InitHistory({"before", "item", "overlap"})
    /\ InitProcs(FetchProcs)
    /\ InitBatch(MaxConcurrencySQLite)
    /\ InitPoller({DefaultSetting})

SpecCount == InitCount /\ [][NextRefetch]_vars

----------------------------------------------------------------------------
(* SpecSeq: one goroutine fetches one feed again and again; the origin       *)
(* answers or fails, with a short message or one longer than is stored       *)

SeqProcs == {"p1"}

InitSeq ==
    /\ now = TickStep
    /\ cancelled = {}
    /\ InitStore({1})
    /\ InitLimiters
    /\ InitHistory({"errMsg", "error", "last_fetched", "start"})
    /\ InitProcs(SeqProcs)
    /\ InitBatch(MaxConcurrencySQLite)
    /\ InitPoller({DefaultSetting})

NextSeq ==
    \/ Tick(TickStep)
    \/ \E p \in Procs : Cancel(p)
    \/ \E p \in Procs, f \in Feeds : CallFetchFeed(p, "server", f)
    \/ FetchFeedNext(FetchContents, {<<"x">>, LongMsg}, BOOLEAN)

SpecSeq == InitSeq /\ [][NextSeq]_vars

----------------------------------------------------------------------------
(* SpecTitle: two request goroutines fetch one feed while the origin changes *)
(* the title it serves                                                       *)

TitleContents ==
    { Parsed("T", <<Item("g1", "")>>), Parsed("U", <<Item("g1", "")>>) }

InitTitle ==
    /\ now = TickStep
    /\ cancelled = {}
    /\ InitStore({1})
    /\ InitLimiters
    /\ InitHistory({})
    /\ InitProcs(FetchProcs)
    /\ InitBatch(MaxConcurrencySQLite)
    /\ InitPoller({DefaultSetting})

NextTitle ==
    \/ Tick(2 * TickStep)
    \/ \E p \in Procs : Cancel(p)
    \/ \E p \in Procs, f \in Feeds : CallFetchFeed(p, "server", f)
    \/ FetchFeedNext(TitleContents, {<<"x">>}, BOOLEAN)

SpecTitle == InitTitle /\ [][NextTitle]_vars

----------------------------------------------------------------------------
(* SpecSQLite: on SQLite, the Poller's FetchAll runs while refresh requests  *)
(* fetch the first feed on the server's Fetcher                              *)

SQLiteProcs == {"b", "p1"} \cup PoolProcs

InitSQLite ==
    /\ now = TickStep
    /\ cancelled = {}
    /\ InitStore(1..NumFeeds)
    /\ InitLimiters
    /\ InitHistory({})
    /\ InitProcs(SQLiteProcs)
    /\ InitBatch(MaxConcurrencySQLite)
    /\ InitPoller({DefaultSetting})

NextSQLite ==
    \/ Tick(2 * TickStep)
    \/ CancelBatch
    \/ Cancel("p1")
    \/ CallFetchFeed("p1", "server", 1)
    \/ \E ok \in BOOLEAN : FetchAll("b", "poller", ok)
    \/ fetchSequentialReturn("b")
    \/ fetchSequentialCancelled("b")
    \/ fetchSequentialFetch("b")
    \/ fetchSequentialNext("b")
    \/ FetchFeedNext(LimiterContents, {<<"x">>}, {TRUE})

SpecSQLite == InitSQLite /\ [][NextSQLite]_vars

----------------------------------------------------------------------------
(* SpecBatch: one FetchAll over NumFeeds feeds, on SQLite (sequential) or on *)
(* PostgreSQL (a pool of PoolSize workers)                                   *)

BatchProcs == {"b"} \cup PoolProcs

InitBatchSpec ==
    /\ now = TickStep
    /\ cancelled = {}
    /\ InitStore(1..NumFeeds)
    /\ InitLimiters
    /\ InitHistory({})
    /\ InitProcs(BatchProcs)
    /\ \E conc \in {MaxConcurrencySQLite, PoolSize} : InitBatch(conc)
    /\ InitPoller({DefaultSetting})

NextBatch ==
    \/ Tick(2 * TickStep)
    \/ CancelBatch
    \/ \E ok \in BOOLEAN : FetchAll("b", "poller", ok)
    \/ FetchAllNext
    \/ FetchFeedNext(LimiterContents, {<<"x">>}, {TRUE})

SpecBatch == InitBatchSpec /\ [][NextBatch]_vars

----------------------------------------------------------------------------
(* SpecPoller: the Poller is started over no feed or one feed, on SQLite or   *)
(* PostgreSQL,                                                               *)
(* with a setting that is missing, malformed, small, ordinary or very large; *)
(* Stop is called at any moment                                              *)

\* what the settings table holds: the last is more minutes than a time.Duration
\* can hold
SettingValues ==
    { <<>>, <<"x">>, <<"-", "5">>, <<"5">>, DefaultSetting, <<"2", "0">>,
      <<"5", "4", "7">> }

InitPollerSpec ==
    /\ now = TickStep
    /\ cancelled = {}
    /\ \E FS \in {{}, {1}} : InitStore(FS)
    /\ InitLimiters
    /\ InitHistory({})
    /\ InitProcs(BatchProcs)
    /\ \E conc \in {MaxConcurrencySQLite, PoolSize} : InitBatch(conc)
    /\ InitPoller(SettingValues)

NextPoller ==
    \/ Tick(2 * TickStep)
    \/ CancelBatch
    \/ PollerStart
    \/ \E ok \in BOOLEAN : PollerInterval(ok)
    \/ \E ok \in BOOLEAN : FetchAll(PollerProc, "poller", ok)
    \/ FetchAllNext
    \/ FetchFeedNext(LimiterContents, {<<"x">>}, {TRUE})
    \/ PollerWait
    \/ PollerStopped
    \/ PollerTimer
    \/ PollerStop
    \/ PollerStopReturn

SpecPoller == InitPollerSpec /\ [][NextPoller]_vars

----------------------------------------------------------------------------
(* SpecPollerFair: the Poller is started over one feed, on SQLite or          *)
(* PostgreSQL, with the default setting or the very large one; Stop is called *)
(* at some moment; every goroutine that can take a step is scheduled, the     *)
(* timers of the limiter fire, and the timer of the loop fires in all cycles  *)
(* but the last of the run                                                    *)

InitPollerFair ==
    /\ now = TickStep
    /\ cancelled = {}
    /\ InitStore({1})
    /\ InitLimiters
    /\ InitHistory({})
    /\ InitProcs(BatchProcs)
    /\ \E conc \in {MaxConcurrencySQLite, PoolSize} : InitBatch(conc)
    /\ InitPoller({DefaultSetting, <<"5", "4", "7">>})

NextPollerFair ==
    \/ \E p \in Procs : AfterDelay(p)
    \/ CancelBatch
    \/ PollerStart
    \/ \E ok \in BOOLEAN : PollerInterval(ok)
    \/ \E ok \in BOOLEAN : FetchAll(PollerProc, "poller", ok)
    \/ FetchAllNext
    \/ FetchFeedNext(LimiterContents, {<<"x">>}, {TRUE})
    \/ PollerWait
    \/ PollerStopped
    \/ (poller.cycles < MaxCycles /\ PollerTimer)
    \/ PollerStop
    \/ PollerStopReturn

\* no step of the model can be repeated for ever, so the fairness says that the
\* run goes on while a step is possible: every FetchAll goes on to its return
SpecPollerFair ==
    InitPollerFair /\ [][NextPollerFair]_vars /\ WF_vars(NextPollerFair)

----------------------------------------------------------------------------
(* SpecPool: a refresh-all request runs the worker pool over one or two feeds *)
(* of one origin while a refresh request, the last of MaxCalls, fetches the   *)
(* first feed on the same Fetcher; or over three feeds of two origins with no *)
(* refresh request left. SpecPoolFair: the same with every goroutine          *)
(* scheduled                                                                  *)

PoolFairProcs == {"b", "p1"} \cup PoolProcs

InitPool ==
    /\ now = TickStep
    /\ cancelled = {}
    /\ \E n \in 1..3 :
          /\ InitStore(1..n)
          /\ ncalls = IF n > 2 THEN MaxCalls ELSE MaxCalls - 1
    /\ InitLimiters
    /\ InitHistory({})
    /\ pc = [p \in PoolFairProcs |-> IF p \in PoolProcs THEN "w_off" ELSE "idle"]
    /\ call = [p \in PoolFairProcs |-> NoCall]
    /\ InitBatch(PoolSize)
    /\ InitPoller({DefaultSetting})

NextPool ==
    \/ \E p \in Procs : AfterDelay(p)
    \/ CancelBatch
    \/ CallFetchFeed("p1", "server", 1)
    \/ \E ok \in BOOLEAN : FetchAll("b", "server", ok)
    \/ \E w \in Procs : WorkerRecv(w)
    \/ \E w \in Procs : WorkerExit(w)
    \/ \E w \in Procs : WorkerCancelled(w)
    \/ \E w \in Procs : WorkerFetch(w)
    \/ \E w \in Procs : WorkerSend(w)
    \/ SendFeed
    \/ SendSkip
    \/ SendClose
    \/ CloseResults
    \/ \E b \in Procs : CollectResult(b)
    \/ \E b \in Procs : CollectReturn(b)
    \/ FetchFeedNext(LimiterContents, {<<"x">>}, {TRUE})

SpecPool == InitPool /\ [][NextPool]_vars

\* every goroutine that can take a step is scheduled: no step of the model can be
\* repeated for ever, so this says that the run goes on while a step is possible
SpecPoolFair == SpecPool /\ WF_vars(NextPool)

----------------------------------------------------------------------------
(* SpecOrigins: four request goroutines on one Fetcher; three fetch a feed of *)
(* origin a, the fourth fetches a feed of origin b; the third may be cancelled *)

InitOrigins ==
    /\ now = TickStep
    /\ cancelled = {}
    /\ InitStore({1, 3})
    /\ InitLimiters
    /\ InitHistory({"dispatch"})
    /\ InitProcs(OriginProcs)
    /\ InitBatch(MaxConcurrencySQLite)
    /\ InitPoller({DefaultSetting})

NextOrigins ==
    \/ Tick(2 * TickStep)
    \/ Cancel("p3")
    \/ \E p \in {"p1", "p2", "p3"} : CallFetchFeed(p, "server", 1)
    \/ CallFetchFeed("p4", "server", 3)
    \/ FetchFeedNext(LimiterContents, {<<"x">>}, {TRUE})

SpecOrigins == InitOrigins /\ [][NextOrigins]_vars

----------------------------------------------------------------------------
(* SpecFrame: one FetchAll over two feeds, sequential or with the pool, while *)
(* one refresh request fetches the second feed; the origin answers or fails   *)

FrameProcs == {"b", "p1"} \cup PoolProcs

\* what the origin serves: a title, an entry, and an entry whose link is the
\* first entry's GUID
FrameContents == { Parsed("T", <<Item("g1", "l1"), Item("", "g1")>>) }

InitFrame ==
    /\ now = TickStep
    /\ cancelled = {}
    /\ InitStore(1..2)
    /\ ncalls = MaxCalls - 1
    /\ InitLimiters
    /\ InitHistory({})
    /\ pc = [p \in FrameProcs |-> IF p \in PoolProcs THEN "w_off" ELSE "idle"]
    /\ call = [p \in FrameProcs |-> NoCall]
    /\ \E conc \in {MaxConcurrencySQLite, PoolSize} : InitBatch(conc)
    /\ InitPoller({DefaultSetting})

NextFrame ==
    \/ \E p \in Procs : AfterDelay(p)
    \/ CancelBatch
    \/ CallFetchFeed("p1", "server", 2)
    \/ \E ok \in BOOLEAN : FetchAll("b", "poller", ok)
    \/ FetchAllNext
    \/ FetchFeedNext(FrameContents, {<<"x">>}, {TRUE})

SpecFrame == InitFrame /\ [][NextFrame]_vars

----------------------------------------------------------------------------
(* SpecLimiterFair: three request goroutines fetch a feed of one origin; the  *)
(* third may be cancelled; every goroutine that can take a step is scheduled  *)
(* and the timers fire                                                        *)

InitLimiterFair ==
    /\ now = TickStep
    /\ cancelled = {}
    /\ InitStore({1})
    /\ InitLimiters
    /\ InitHistory({})
    /\ InitProcs(LimiterProcs)
    /\ InitBatch(MaxConcurrencySQLite)
    /\ InitPoller({DefaultSetting})

NextLimiterFair ==
    \/ \E p \in Procs : AfterDelay(p)
    \/ Cancel("p3")
    \/ \E p \in Procs : CallFetchFeed(p, "server", 1)
    \/ FetchFeedNext(LimiterContents, {<<"x">>}, {TRUE})

\* no step of the model can be repeated for ever, so the fairness says that the
\* run goes on while a step is possible: a holder of a slot goes on to its release
SpecLimiterFair == InitLimiterFair /\ [][NextLimiterFair]_vars /\ WF_vars(NextLimiterFair)

----------------------------------------------------------------------------
(* Claims about the limiter, checked under SpecLimiter *)

\* the calls that have returned from acquire(d) on Fetcher fz with nil and have not
\* yet called release(d)
InFlight(fz, d) ==
    { p \in Procs : /\ pc[p] \in {"parse", "items", "release"}
                    /\ Lim(p) = fz
                    /\ Domain(p) = d }

AllDomains == { extractDomain(FeedURL[f]) : f \in DOMAIN FeedURL }

\* C1: for every origin, the callers that returned successfully from acquire(origin)
\* and have not yet called release(origin) are never more than MaxConcurrencyPerDomain
C1_PerOriginCap ==
    \A fz \in Fetchers, d \in AllDomains :
        Cardinality(InFlight(fz, d)) <= MaxConcurrencyPerDomain

\* two requests to origin a are in flight and a third caller is blocked on the gate
C1_Witness ==
    /\ Cardinality(InFlight("server", "a")) = MaxConcurrencyPerDomain
    /\ \E p \in Procs : pc[p] = "acquire_select" /\ Domain(p) = "a"
    /\ semaphores["server"]["a"] = MaxConcurrencyPerDomain

\* p's acquire returns nil in this step
Dispatches(p) == pc[p] \in {"acquire_elapsed", "acquire_sleep"} /\ pc'[p] = "parse"

\* C2: any two dispatches to one origin (successful returns of acquire) are at least
\* DelayBetweenDomainRequests apart, the first two requests to a never-seen origin
\* included
C2_MinSpacing ==
    [][ \A p \in Procs :
          (Dispatches(p) /\ Domain(p) \in DOMAIN lastDispatch[Lim(p)])
            => now - lastDispatch[Lim(p)][Domain(p)] >= DelayBetweenDomainRequests
      ]_vars

\* C3: a context cancelled while acquire sleeps out the spacing interval makes
\* acquire return the cancellation error and give back the slot it took: the gate of
\* the origin loses exactly the token this call put in, so the call leaves the number
\* of occupied slots as it found it
C3_CancelInSleepReleasesSlot ==
    [][ \A p \in Procs :
          (pc[p] = "acquire_sleep" /\ pc'[p] = "done")
            => /\ call'[p].ret.err = "rate limit cancelled"
               /\ call[p].held = 1
               /\ call'[p].held = 0
               /\ semaphores' = [semaphores EXCEPT ![Lim(p)][Domain(p)] = @ - 1]
      ]_vars

\* a call has returned the cancellation error out of the spacing sleep
C3_Witness ==
    \E p \in Procs :
        /\ pc[p] = "done"
        /\ call[p].exit = "sleep"
        /\ call[p].ret.err = "rate limit cancelled"
        /\ call[p].held = 0

\* C4: a FetchFeed call whose acquire succeeded calls release exactly once before it
\* returns, on the success path and on the parse-failure path; a call whose acquire
\* failed never calls release
C4_ReleaseOncePerAcquire ==
    \A p \in Procs :
        /\ call[p].releases <= (IF call[p].acquired THEN 1 ELSE 0)
        /\ pc[p] = "done" => call[p].releases = (IF call[p].acquired THEN 1 ELSE 0)

\* three calls have returned: one fetched, one failed to parse, one was cancelled in
\* acquire
C4_Witness ==
    /\ \E p \in Procs : /\ pc[p] = "done" /\ call[p].ret.err = "nil"
                        /\ call[p].acquired /\ call[p].releases = 1
    /\ \E p \in Procs : /\ pc[p] = "done" /\ call[p].ret.err = "parse feed"
                        /\ call[p].acquired /\ call[p].releases = 1
    /\ \E p \in Procs : /\ pc[p] = "done" /\ call[p].ret.err = "rate limit cancelled"
                        /\ ~call[p].acquired /\ call[p].releases = 0

----------------------------------------------------------------------------
(* Claims about storage, checked under Spec *)

\* C5: the item store holds at most one item per (feed id, dedup key), and each
\* entry is reported as newly inserted at most once, whatever fetches overlap
C5_StoredOnce ==
    /\ \A k \in BagToSet(items) : CopiesIn(k, items) = 1
    /\ \A k \in BagToSet(reportedNew) : CopiesIn(k, reportedNew) = 1

\* two overlapping fetches of feed 1 have both submitted the entry with key g1 and
\* storage accepted both submissions: one was told "new", the other was not
C5_Witness ==
    \E p, q \in Procs :
        /\ p # q
        /\ pc[p] = "items" /\ pc[q] = "items"
        /\ call[p].feed.ID = 1 /\ call[q].feed.ID = 1
        /\ call[p].idx = 2 /\ call[q].idx = 2
        /\ DedupKey(call[p].parsed.Items[1]) = "g1"
        /\ DedupKey(call[q].parsed.Items[1]) = "g1"
        /\ call[p].dbErrs = {} /\ call[q].dbErrs = {}
        /\ call[p].newCount = 1 /\ call[q].newCount = 0
        /\ CopiesIn(<<1, "g1">>, items) = 1

\* p's FetchFeed returns in this step
Returns(p) == pc[p] = "release_recv" /\ pc'[p] = "done"

\* p's ParseURLWithContext fails in this step
ParseFails(p) == pc[p] = "parse" /\ pc'[p] = "release"

\* p's FetchFeed finishes its work in this step and goes on to return newCount, nil
Finishes(p) == pc[p] = "items" /\ pc'[p] = "release"

\* the steps of p inside acquire and release
LimiterStep(p) ==
    /\ pc[p] \in {"acquire", "acquire_select", "acquire_last", "acquire_elapsed",
                  "acquire_sleep", "release", "release_recv"}
    /\ pc'[p] # pc[p]

\* C8 as stated: whenever retrieval or parsing fails inside FetchFeed, the feed's
\* stored error is non-empty when the call returns (and last_fetched is untouched)
C8_AsStated ==
    [][ \A p \in Procs :
          (Returns(p) /\ call[p].ret.err = "parse feed")
            => feeds'[call[p].feed.ID].last_error # <<>>
      ]_vars

\* C8 amended: a FetchFeed whose retrieval or parse fails returns an error, none of
\* its steps changes the feed's last_fetched, and its UpdateFeedError leaves the
\* feed's stored error non-empty unless storage rejected that write
C8_ParseFailureRecorded ==
    [][ \A p \in Procs :
          /\ LimiterStep(p) => feeds' = feeds
          /\ ParseFails(p) =>
               /\ call'[p].ret.err = "parse feed"
               /\ feeds'[call[p].feed.ID].last_fetched
                    = feeds[call[p].feed.ID].last_fetched
               /\ "error" \notin call'[p].dbErrs
                    => feeds'[call[p].feed.ID].last_error # <<>>
      ]_vars

\* a call whose parse failed is about to return, storage took its UpdateFeedError,
\* and the feed, fetched successfully before, shows the error and its old last_fetched
C8_Witness ==
    \E p \in Procs :
        /\ pc[p] = "release"
        /\ call[p].ret.err = "parse feed"
        /\ "error" \notin call[p].dbErrs
        /\ feeds[call[p].feed.ID].last_error # <<>>
        /\ feeds[call[p].feed.ID].last_fetched # ZeroTime
        /\ feeds[call[p].feed.ID].last_fetched < now

\* C9 as stated: whenever FetchFeed returns without error, the feed's stored error
\* is empty and its last_fetched is at least the time the call began
C9_AsStated ==
    [][ \A p \in Procs :
          (Returns(p) /\ call[p].ret.err = "nil")
            => /\ feeds'[call[p].feed.ID].last_error = <<>>
               /\ feeds'[call[p].feed.ID].last_fetched >= call[p].start
      ]_vars

\* C9 amended: a FetchFeed that returns without error has called
\* UpdateFeedLastFetched with a time at least the time the call began, and unless
\* storage rejected that write the feed's stored error is empty and its last_fetched
\* is that time right after it
C9_SuccessRecorded ==
    [][ \A p \in Procs :
          Finishes(p) =>
            /\ call'[p].ret.err = "nil"
            /\ call[p].now >= call[p].start
            /\ "last_fetched" \notin call'[p].dbErrs
                 => /\ feeds'[call[p].feed.ID].last_error = <<>>
                    /\ feeds'[call[p].feed.ID].last_fetched = call[p].now
      ]_vars

\* a call that began at the first clock value is about to return nil: storage took
\* its UpdateFeedLastFetched, the stored error is empty and last_fetched is later
\* than the call's start
C9_Witness ==
    \E p \in Procs :
        /\ pc[p] = "release"
        /\ call[p].ret.err = "nil"
        /\ "last_fetched" \notin call[p].dbErrs
        /\ feeds[call[p].feed.ID].last_error = <<>>
        /\ feeds[call[p].feed.ID].last_fetched = call[p].now
        /\ call[p].now > call[p].start

----------------------------------------------------------------------------
(* Claims about refetching, checked under SpecRefetch and SpecCount *)

\* p's loop handles one entry of the parsed feed in this step
StoresEntry(p) == pc[p] = "items" /\ call'[p].idx = call[p].idx + 1

\* p is working on content identical to that of the last fetch of the same feed
\* that finished before p's call began
SameAsPrevious(p) ==
    /\ pc[p] = "items"
    /\ call[p].prev.any
    /\ call[p].prev.content = call[p].parsed

\* C6 as the claim states it: a fetch of content identical to the previous fetch's
\* stores nothing and returns the count zero
C6_AsStated ==
    [][ \A p \in Procs :
          SameAsPrevious(p) =>
            /\ StoresEntry(p) => items' = items
            /\ Finishes(p) => call'[p].ret.count = 0
      ]_vars

\* C6: fetching a feed again with content identical to the previous fetch's stores
\* nothing and returns the count zero, provided storage accepted every insert of
\* the previous fetch
C6_Idempotent ==
    [][ \A p \in Procs :
          (SameAsPrevious(p) /\ call[p].prev.clean) =>
            /\ StoresEntry(p) => items' = items
            /\ Finishes(p) => call'[p].ret.count = 0
      ]_vars

\* a second fetch of the same content has gone through all its entries and found
\* nothing new, although storage accepts its inserts
C6_Witness ==
    \E p \in Procs :
        /\ SameAsPrevious(p)
        /\ call[p].prev.clean
        /\ call[p].idx > Len(call[p].parsed.Items)
        /\ Len(call[p].parsed.Items) = 3
        /\ "item" \notin call[p].dbErrs
        /\ call[p].newCount = 0

\* the dedup key the claim defines: the GUID, else the link
EntryKey(item) == IF item.GUID # "" THEN item.GUID ELSE item.Link

\* the distinct dedup keys of a parsed feed; an entry with neither has none
Keys(parsed) ==
    { EntryKey(parsed.Items[i]) : i \in 1..Len(parsed.Items) } \ {""}

\* the keys of p's parsed feed that were not stored when p's call began
Fresh(p) == Keys(call[p].parsed) \ call[p].before

\* C7 as the claim states it: the returned count is the number of distinct dedup
\* keys of the parsed feed that were not stored before the call
C7_AsStated ==
    [][ \A p \in Procs :
          Finishes(p) => call'[p].ret.count = Cardinality(Fresh(p))
      ]_vars

\* C7: the returned count never exceeds the number of distinct dedup keys of the
\* parsed feed that were not stored before the call, and equals it when storage
\* accepted every insert of the call and no other fetch stored an entry of the
\* same feed during the call
C7_NewCount ==
    [][ \A p \in Procs :
          Finishes(p) =>
            /\ call'[p].ret.count <= Cardinality(Fresh(p))
            /\ ("item" \notin call[p].dbErrs /\ ~call[p].overlap)
                 => call'[p].ret.count = Cardinality(Fresh(p))
      ]_vars

\* a fetch of the grown content, begun when g1 was stored, has gone through its
\* entries: g1 (by link) was stored already, g2 is new, the third has no key
C7_Witness ==
    \E p \in Procs :
        /\ pc[p] = "items"
        /\ call[p].idx > Len(call[p].parsed.Items)
        /\ Len(call[p].parsed.Items) = 3
        /\ call[p].before = {"g1"}
        /\ "item" \notin call[p].dbErrs
        /\ ~call[p].overlap
        /\ call[p].newCount = 1

----------------------------------------------------------------------------
(* Claims about FetchAll, checked under SpecBatch *)

\* the feeds of the batch whose FetchFeed returned an error
FailedFeeds == { id \in DOMAIN batch.fetched : batch.fetched[id].err # "nil" }

\* FetchAll has returned and its context was never cancelled
ReturnedUncancelled ==
    /\ batch.caller # NoOwner
    /\ pc[batch.caller] = "returned"
    /\ BatchCtx \notin cancelled

\* C10: a failed feed does not abort the batch, sequential or worker pool: when
\* FetchAll over N feeds returns without its context having been cancelled and
\* exactly one FetchFeed of the batch failed, the result map has N-1 entries (the
\* other N-1 feeds were fetched and succeeded) and the batch error is nil
C10_FailureDoesNotAbort ==
    (ReturnedUncancelled /\ Cardinality(FailedFeeds) = 1) =>
        /\ Cardinality(DOMAIN batch.results) = Len(batch.feeds) - 1
        /\ batch.err = "nil"

\* the worker pool has fetched all feeds, the first one failed, and FetchAll
\* has returned the other NumFeeds-1
C10_Witness ==
    /\ ReturnedUncancelled
    /\ concurrency[batch.fetcher] = PoolSize
    /\ Len(batch.feeds) = NumFeeds
    /\ FailedFeeds = {1}
    /\ Cardinality(DOMAIN batch.results) = NumFeeds - 1

\* the same in sequential mode
C10_WitnessSequential ==
    /\ ReturnedUncancelled
    /\ concurrency[batch.fetcher] = MaxConcurrencySQLite
    /\ Len(batch.feeds) = NumFeeds
    /\ FailedFeeds = {1}
    /\ Cardinality(DOMAIN batch.results) = NumFeeds - 1

\* FetchAll has returned
BatchReturned == batch.caller # NoOwner /\ pc[batch.caller] = "returned"

\* the feeds of the batch whose FetchFeed returned nil
SucceededFeeds == DOMAIN batch.fetched \ FailedFeeds

\* C11: when FetchAll returns, no FetchFeed of the batch is still running or holds
\* a result not handed over, and the map has a key for a feed id exactly when
\* FetchFeed ran for that feed in this batch and returned nil, its value is the
\* count FetchFeed returned, and it has no more keys than there are input feeds
C11_MapContents ==
    BatchReturned =>
        /\ \A p \in Procs : pc[p] \in {"returned", "w_off", "w_exit"}
        /\ DOMAIN batch.results = SucceededFeeds
        /\ \A id \in DOMAIN batch.results : batch.results[id] = batch.fetched[id].count
        /\ Cardinality(DOMAIN batch.results) <= Len(batch.feeds)

\* the pool's FetchAll has returned after a cancellation: one feed succeeded and is
\* in the map with its count, one failed and one was never attempted
C11_Witness ==
    /\ BatchReturned
    /\ concurrency[batch.fetcher] = PoolSize
    /\ \E id \in SucceededFeeds : batch.results[id] = 1
    /\ FailedFeeds # {}
    /\ Cardinality(DOMAIN batch.fetched) < Len(batch.feeds)

\* the positions of a goroutine inside FetchFeed
InFetchFeed ==
    {"acquire", "acquire_select", "acquire_last", "acquire_elapsed", "acquire_sleep",
     "parse", "items", "release", "release_recv"}

\* FetchAll ran fetchSequential and has returned
SequentialReturned ==
    /\ BatchReturned
    /\ Len(batch.feeds) > 0
    /\ concurrency[batch.fetcher] <= 1

\* C12: in sequential mode, when the context was cancelled while FetchAll was
\* fetching a feed (the last one or another), FetchAll returns the cancellation
\* error together with the map of the feeds fetched successfully
C12_SequentialCancel ==
    (SequentialReturned /\ batch.cancelAt \in InFetchFeed) =>
        /\ batch.err = "ctx"
        /\ DOMAIN batch.results = SucceededFeeds

\* FetchAll ran fetchParallel and has returned
ParallelReturned ==
    /\ BatchReturned
    /\ Len(batch.feeds) > 0
    /\ concurrency[batch.fetcher] > 1

\* C13: in worker-pool mode, when the context was cancelled before every feed was
\* fetched, FetchAll returns the cancellation error together with the map of the
\* feeds fetched successfully
C13_ParallelCancel ==
    (/\ ParallelReturned
     /\ batch.cancelAt # "none"
     /\ batch.cancelFetched < Len(batch.feeds)) =>
        /\ batch.err = "ctx"
        /\ DOMAIN batch.results = SucceededFeeds

\* the ids of the feeds FetchAll works on
InputFeeds == { batch.feeds[i].ID : i \in 1..Len(batch.feeds) }

\* C18: within one FetchAll, FetchFeed is started at most once per input feed and
\* for no other feed; when FetchAll returns and its context was never cancelled,
\* FetchFeed was started exactly once for every input feed
C18_StartedOnce ==
    /\ DOMAIN batch.started \subseteq InputFeeds
    /\ \A id \in DOMAIN batch.started : batch.started[id] = 1
    /\ ReturnedUncancelled => DOMAIN batch.started = InputFeeds

\* the pool has returned uncancelled: every feed was started once, though the
\* second one failed
C18_Witness ==
    /\ ReturnedUncancelled
    /\ concurrency[batch.fetcher] = PoolSize
    /\ FailedFeeds = {2}
    /\ \A id \in 1..NumFeeds : batch.started[id] = 1

----------------------------------------------------------------------------
(* Claims about the storage frame of FetchFeed *)

\* p takes a step inside acquire
AcquireStep(p) ==
    /\ pc[p] \in {"acquire", "acquire_select", "acquire_last", "acquire_elapsed",
                  "acquire_sleep"}
    /\ pc'[p] # pc[p]

\* C14: a FetchFeed whose acquire fails with cancellation returns the
\* rate-limit-cancelled error without having acquired, and no step the call takes
\* up to there changes storage: the feeds' titles, errors and last_fetched and the
\* items are as they were
C14_CancelledAcquireFrame ==
    [][ \A p \in Procs :
          AcquireStep(p) =>
            /\ feeds' = feeds
            /\ items' = items
            /\ pc'[p] = "done" =>
                 /\ call'[p].ret = [count |-> 0, err |-> "rate limit cancelled"]
                 /\ ~call'[p].acquired
      ]_vars

\* a call has returned the cancellation error out of the wait for a slot, while
\* the feed it was called for has items stored by other calls
C14_Witness ==
    \E p \in Procs :
        /\ pc[p] = "done"
        /\ call[p].exit = "select"
        /\ call[p].ret.err = "rate limit cancelled"
        /\ items # EmptyBag
        /\ feeds[1].last_fetched # ZeroTime

\* p's FetchFeed returns in this step
Completes(p) == pc[p] # "done" /\ pc'[p] = "done"

\* what the FetchFeed of p returns, at the step in which it returns
Outcome(p) ==
    IF pc[p] = "release_recv" THEN call[p].ret.err ELSE "rate limit cancelled"

\* C15 as the claim states it: when a FetchFeed returns, the feed's stored error is
\* empty if it returns nil and is the failure's message if it returns an error
C15_AsStated ==
    [][ \A p \in Procs :
          Completes(p) =>
            IF Outcome(p) = "nil"
            THEN feeds'[call[p].feed.ID].last_error = <<>>
            ELSE /\ feeds'[call[p].feed.ID].last_error # <<>>
                 /\ Outcome(p) = "parse feed"
                      => feeds'[call[p].feed.ID].last_error = call[p].errMsg
      ]_vars

\* the first n characters of a message
Prefix(msg, n) == IF Len(msg) > n THEN SubSeq(msg, 1, n) ELSE msg

\* C15: with no other fetch of the feed under way, when a FetchFeed returns nil and
\* storage accepted its last write, the feed's stored error is empty; when it
\* returns a retrieval or parse failure and storage accepted the write, the stored
\* error is the first 200 characters of the failure's message; when it fails with
\* the rate-limit cancellation the stored error is what it was (no step of acquire
\* changes the feed)
C15_ErrorReflectsOutcome ==
    [][ \A p \in Procs :
          /\ AcquireStep(p) => feeds' = feeds
          /\ Completes(p) =>
               LET f == call[p].feed.ID
                   outcome == Outcome(p)
               IN  /\ (outcome = "nil" /\ "last_fetched" \notin call[p].dbErrs)
                        => feeds'[f].last_error = <<>>
                   /\ (outcome = "parse feed" /\ "error" \notin call[p].dbErrs)
                        => /\ feeds'[f].last_error = Prefix(call[p].errMsg, ErrMsgLimit)
                           /\ feeds'[f].last_error # <<>>
                   /\ outcome = "rate limit cancelled" => feeds'[f] = feeds[f]
      ]_vars

\* a fetch is about to return the failure with the long message: the feed, fetched
\* successfully before, now shows the first 200 characters of it
C15_Witness ==
    \E p \in Procs :
        /\ pc[p] = "release_recv"
        /\ call[p].ret.err = "parse feed"
        /\ call[p].errMsg = LongMsg
        /\ Len(feeds[call[p].feed.ID].last_error) = ErrMsgLimit
        /\ feeds[call[p].feed.ID].last_fetched # ZeroTime

\* C16: once a feed's stored title differs from its URL, no step of any FetchFeed
\* changes the stored title, whatever snapshot of the feed the call works from
C16_TitleOneTime ==
    [][ \A f \in Feeds :
          feeds[f].title # FeedURL[f] => feeds'[f].title = feeds[f].title
      ]_vars

----------------------------------------------------------------------------
(* Claims about concurrency on SQLite, checked under SpecSQLite *)

\* the goroutines inside FetchFeed
Fetching == { p \in Procs : pc[p] \in InFetchFeed }

\* C17 as the claim states it: when storage does not support high concurrency, no
\* two FetchFeed executions overlap, whoever issued them
C17_AsStated ==
    (\A fz \in Fetchers : concurrency[fz] <= MaxConcurrencySQLite)
        => Cardinality(Fetching) <= 1

\* C17: when storage does not support high concurrency, FetchAll starts no worker
\* and no two FetchFeed executions of one FetchAll overlap; a FetchFeed of a
\* refresh request may overlap with them
C17_OneFetchPerBatch ==
    (\A fz \in Fetchers : concurrency[fz] <= MaxConcurrencySQLite) =>
        /\ \A w \in PoolProcs : pc[w] = "w_off"
        /\ Cardinality({ p \in Fetching : call[p].caller # "handler" }) <= 1

\* the sequential batch is storing the items of its second feed while the refresh
\* request is storing items as well
C17_Witness ==
    /\ concurrency["poller"] = MaxConcurrencySQLite
    /\ pc["b"] = "items"
    /\ batch.i = 2
    /\ pc["p1"] = "items"

----------------------------------------------------------------------------
(* Claims about the Poller, checked under SpecPoller *)

\* the Poller is in the select between two batches
Waiting == pc[PollerProc] = "poll_wait"

\* C19: whenever the Poller waits between two batches, the duration of its timer
\* is at least MinPollingIntervalMinutes minutes, whatever the setting holds
C19_WaitAtLeastMinimum ==
    Waiting => poller.wait >= MinPollingIntervalMinutes * Minute

\* the minutes the setting asks for fit in a time.Duration
FitsDuration(mins) == mins * Minute < 2 ^ (DurationBits - 1)

\* for a setting whose minutes fit in a time.Duration the timer is at least the
\* minimum, and a setting of 5 gives a timer of 15 minutes
C19_WaitWithinRange ==
    (Waiting /\ FitsDuration(poller.interval))
        => /\ poller.wait >= MinPollingIntervalMinutes * Minute
           /\ setting = <<"5">> => poller.wait = 15 * Minute

\* a FetchAll of the Poller, or one of its workers, is running
PollerBatchRunning ==
    \/ pc[PollerProc] \notin {"idle", "poll_top", "poll_wait", "exited"}
    \/ \E w \in PoolProcs : pc[w] \notin {"w_off", "w_exit"}

\* C20: when Stop has returned, the polling goroutine has exited, no FetchAll it
\* started and no worker is running, and it starts no further cycle
C20_StopJoinsLoop ==
    [][ /\ poller'.stop = "returned"
            => /\ pc'[PollerProc] = "exited"
               /\ ~PollerBatchRunning'
        /\ poller.stop = "returned"
            => /\ poller'.cycles = poller.cycles
               /\ batch' = batch ]_vars

\* Stop was called while FetchAll was running, and has returned
C20_Witness ==
    /\ poller.stop = "returned"
    /\ poller.stopAt \in {"parse", "collect"}
    /\ DOMAIN batch.fetched # {}

----------------------------------------------------------------------------
(* Claims about FetchAll, checked under SpecPoller *)

\* this step is a call of FetchAll whose GetAllFeeds succeeds
FetchAllCalled == batch.caller = NoOwner /\ batch'.caller # NoOwner /\ batch'.err # "db"

\* C21: a FetchAll over an empty feed collection returns in its first step with an
\* empty map and a nil error, starts no worker and no goroutine of the pool, and
\* calls no FetchFeed
C21_EmptyInput ==
    [][ (FetchAllCalled /\ Feeds = {})
            => /\ pc'[batch'.caller] = "returned"
               /\ batch'.err = "nil"
               /\ batch'.results = <<>>
               /\ batch'.started = <<>>
               /\ \A w \in PoolProcs : pc'[w] = "w_off"
               /\ poolVars' = poolVars /\ wg' = 0 /\ sender'.pc = "off" /\ closer' = "off"
               /\ call' = call /\ ncalls' = 0 ]_vars

\* a FetchAll over no feeds has returned, on PostgreSQL
C21_Witness ==
    /\ Feeds = {}
    /\ concurrency["poller"] = PoolSize
    /\ batch.caller # NoOwner
    /\ batch.err = "nil"
    /\ pc[batch.caller] = "returned"

----------------------------------------------------------------------------
(* Claims about the sequential mode, checked under SpecSQLite *)

\* the ids of the first n feeds of the batch, in the order FetchAll got them
FirstFeeds(n) == { batch.feeds[j].ID : j \in 1..n }

\* this step starts a FetchFeed of the batch
StartsFetch == batch'.started # batch.started

\* C22: in sequential mode the k-th FetchFeed FetchAll starts is for the k-th
\* feed of its input, it starts only when the FetchFeed calls of all earlier feeds
\* have returned, and at most one feed is started and not yet returned
C22_SequentialOrder ==
    [][ concurrency[batch'.fetcher] <= 1
            => /\ StartsFetch
                   => LET k == Cardinality(DOMAIN batch.started) + 1
                      IN  /\ k <= Len(batch.feeds)
                          /\ DOMAIN batch'.started = FirstFeeds(k)
                          /\ DOMAIN batch.fetched = FirstFeeds(k - 1)
                          /\ \A p \in Procs : call[p].caller = "handler"
                                                \/ pc[p] \notin InFetchFeed
               /\ Cardinality(DOMAIN batch'.started \ DOMAIN batch'.fetched) <= 1 ]_vars

\* the sequential batch fetches its third feed after the second one has failed
C22_Witness ==
    /\ concurrency[batch.fetcher] <= 1
    /\ batch.i = 3
    /\ pc["b"] = "parse"
    /\ DOMAIN batch.started = {1, 2, 3}
    /\ batch.fetched[2].err # "nil"

----------------------------------------------------------------------------
(* Claims about the worker pool, checked under SpecBatch *)

\* FetchAll runs, or ran, fetchParallel
PoolMode == batch.caller # NoOwner /\ closer # "off"

\* the workers inside FetchFeed
FetchingWorkers == { p \in Procs : pc[p] \in InFetchFeed /\ call[p].caller = "worker" }

\* C23: the step of FetchAll that enters fetchParallel starts exactly
\* concurrency workers and sets the WaitGroup to that number, whatever the number
\* of feeds; no other step starts a worker; and at every moment at most
\* concurrency workers are inside FetchFeed, and at most that many feeds are
\* started with their result not yet handed over
C23_PoolSize ==
    [][ /\ (FetchAllCalled /\ PoolMode')
            => /\ Cardinality({ w \in Procs : pc[w] = "w_off" /\ pc'[w] = "w_range" })
                    = concurrency[batch'.fetcher]
               /\ wg' = concurrency[batch'.fetcher]
        /\ ~FetchAllCalled => \A w \in Procs : pc[w] = "w_off" => pc'[w] = "w_off"
        /\ PoolMode'
            => /\ Cardinality(FetchingWorkers') <= concurrency[batch'.fetcher]
               /\ Cardinality(DOMAIN batch'.started \ DOMAIN batch'.fetched)
                    <= concurrency[batch'.fetcher] ]_vars

\* all workers of the pool are inside FetchFeed while a feed waits in the queue
C23_Witness ==
    /\ PoolMode
    /\ FetchingWorkers = PoolProcs
    /\ Cardinality(FetchingWorkers) = concurrency[batch.fetcher]
    /\ Len(feedChan.buf) >= 1

\* the worker has taken a feed from feedChan and is at its cancellation check
AtCheck(w) == pc[w] = "w_check"

\* C24: a worker that has taken a feed and finds the context cancelled exits
\* without starting FetchFeed for that feed and without sending a result, and the
\* feed is neither fetched nor reported later; a worker that finds the context
\* live starts FetchFeed; a worker inside FetchFeed stays in it until it returns,
\* cancelled or not, and then sends the result of that feed
C24_CheckBeforeFetch ==
    [][ /\ \A w \in PoolProcs :
            /\ (AtCheck(w) /\ pc'[w] # pc[w])
                => IF BatchCtx \in cancelled
                   THEN /\ pc'[w] = "w_exit"
                        /\ batch'.started = batch.started
                        /\ resultChan' = resultChan
                        /\ wg' = wg - 1
                   ELSE /\ pc'[w] = "acquire"
                        /\ call[w].feed.ID \in DOMAIN batch'.started
            /\ pc[w] \in InFetchFeed => pc'[w] \in InFetchFeed \cup {"w_send"}
            /\ (pc[w] = "w_send" /\ pc'[w] # pc[w])
                => /\ Len(resultChan'.buf) = Len(resultChan.buf) + 1
                   /\ resultChan'.buf[Len(resultChan'.buf)].FeedID = call[w].feed.ID
        /\ batch'.dropped \cap DOMAIN batch'.started = {}
        /\ batch'.dropped \cap DOMAIN batch'.results = {}
        /\ \A i \in 1..Len(resultChan'.buf) :
                resultChan'.buf[i].FeedID \notin batch'.dropped ]_vars

\* FetchAll has returned: after the cancellation one worker dropped the feed it
\* had taken, while a feed not yet reported at the cancellation was fetched with
\* nil and reported
C24_Witness ==
    /\ BatchReturned
    /\ batch.dropped # {}
    /\ batch.cancelAt = "collect"
    /\ batch.cancelFetched < Cardinality(SucceededFeeds)

----------------------------------------------------------------------------
(* Claims about termination of the worker pool, checked under SpecPoolFair *)

\* fetchParallel is over: every worker has exited, both channels are closed
PoolDone ==
    /\ BatchReturned
    /\ \A w \in PoolProcs : pc[w] = "w_exit"
    /\ wg = 0
    /\ feedChan.closed
    /\ resultChan.closed

\* C25: once FetchAll has started the worker pool, all workers exit, resultChan is
\* closed and FetchAll returns, cancelled or not
C25_PoolTerminates == (PoolMode /\ ~BatchReturned) ~> PoolDone

\* a worker waits for a slot of the origin, which the refresh request and the
\* other worker hold
C25_SlotWait ==
    /\ PoolMode
    /\ \E w \in PoolProcs :
          /\ pc[w] = "acquire_select"
          /\ semaphores[Lim(w)][Domain(w)] = MaxConcurrencyPerDomain

\* the pool has ended after a cancellation that made a worker drop its feed
C25_Witness ==
    /\ PoolDone
    /\ PoolMode
    /\ batch.dropped # {}

----------------------------------------------------------------------------
(* Claims about the channels of the worker pool, checked under SpecBatch *)

\* the workers fetchParallel started
StartedWorkers == Workers(concurrency[batch.fetcher])

\* C26: resultChan is closed by the closer only, at most once, when every worker
\* has exited and the WaitGroup is at zero, and nothing is sent on it afterwards;
\* feedChan is closed by the sender only, at most once, after its loop over the
\* feeds, and nothing is sent on it afterwards; when fetchParallel returns
\* resultChan is closed
C26_ClosedOnce ==
    [][ /\ resultChan'.closed # resultChan.closed
            => /\ ~resultChan.closed
               /\ closer = "wait" /\ closer' = "done"
               /\ wg = 0
               /\ \A w \in StartedWorkers : pc[w] = "w_exit"
        /\ closer' # closer => (FetchAllCalled \/ resultChan'.closed # resultChan.closed)
        /\ resultChan.closed
            => /\ resultChan'.closed
               /\ Len(resultChan'.buf) <= Len(resultChan.buf)
               /\ \A w \in StartedWorkers : pc'[w] = "w_exit"
        /\ feedChan'.closed # feedChan.closed
            => /\ ~feedChan.closed
               /\ sender.pc = "loop" /\ sender'.pc = "done"
               /\ sender.i > Len(batch.feeds)
        /\ sender'.pc # sender.pc => (FetchAllCalled \/ feedChan'.closed # feedChan.closed)
        /\ feedChan.closed
            => /\ feedChan'.closed
               /\ Len(feedChan'.buf) <= Len(feedChan.buf)
               /\ sender' = sender
        /\ (PoolMode' /\ BatchReturned') => resultChan'.closed ]_vars

\* the pool has returned with a result for every feed and both channels closed
C26_Witness ==
    /\ PoolMode
    /\ BatchReturned
    /\ feedChan.closed
    /\ resultChan.closed
    /\ closer = "done"
    /\ sender.pc = "done"
    /\ DOMAIN batch.fetched = InputFeeds

----------------------------------------------------------------------------
(* Claims about cancellation and origins in acquire, checked under           *)
(* SpecLimiter and SpecOrigins                                               *)

\* p leaves the first select of acquire in this step without a slot
LeavesSlotWait(p) ==
    /\ pc[p] = "acquire_select"
    /\ pc'[p] \notin {"acquire_select", "acquire_last"}

\* C27: an acquire leaves its wait for a slot without a slot only when its context
\* is cancelled; it then returns the cancellation error at once: it has taken no
\* slot, does not read the last request time or sleep, and leaves the slots in use,
\* the last request times and the mutex as they were
C27_CancelWhileWaiting ==
    [][ \A p \in Procs :
          LeavesSlotWait(p) =>
            /\ Done(p)
            /\ pc'[p] = "done"
            /\ call'[p].ret.err = "rate limit cancelled"
            /\ call'[p].exit = "select"
            /\ call'[p].held = 0
            /\ ~call'[p].acquired
            /\ call'[p].releases = 0
            /\ semaphores' = semaphores
            /\ lastRequest' = lastRequest
            /\ lastDispatch' = lastDispatch
            /\ mu' = mu
            /\ now' = now ]_vars

\* a call has returned the cancellation error out of the wait for a slot while
\* both slots of the origin are held by two other calls
C27_Witness ==
    \E p \in Procs :
        /\ pc[p] = "done"
        /\ call[p].exit = "select"
        /\ semaphores["server"]["a"] = MaxConcurrencyPerDomain
        /\ \A q \in Procs \ {p} : pc[q] \in {"parse", "items"}

\* the positions of a goroutine inside acquire
InAcquire ==
    {"acquire", "acquire_select", "acquire_last", "acquire_elapsed", "acquire_sleep"}

\* q is blocked in acquire: all slots of its origin are taken, or its spacing has
\* not run out
Blocked(q) ==
    \/ /\ pc[q] = "acquire_select"
       /\ semaphores[Lim(q)][Domain(q)] >= MaxConcurrencyPerDomain
    \/ /\ pc[q] = "acquire_sleep"
       /\ now < call[q].wakeAt

\* p's acquire can take its next step
CanAcquire(p) ==
    ENABLED (\/ AcquireGetSem(p) \/ AcquireSend(p) \/ AcquireLastReq(p)
             \/ AcquireNoDelay(p) \/ AcquireDelay(p) \/ AcquireWake(p))

\* the limiter's mutex is held by a call inside release, which can go on
MutexInRelease(fz) ==
    /\ mu[fz] # NoOwner
    /\ pc[mu[fz]] = "release_recv"
    /\ ENABLED ReleaseRecv(mu[fz])

\* C28: no call holds the limiter's mutex while it waits for a slot or sleeps out
\* the spacing; and while calls are blocked in acquire for one origin, an acquire
\* for another origin whose slots are not all taken and whose spacing has run out
\* can take its next step, or waits only for the mutex held by a release that can
\* itself go on
C28_OriginsIndependent ==
    /\ \A q \in Procs :
          pc[q] \in {"acquire_select", "acquire_sleep"} => mu[Lim(q)] # q
    /\ \A p \in Procs :
          (/\ pc[p] \in InAcquire
           /\ ~Blocked(p)
           /\ \E q \in Procs \ {p} :
                 Lim(q) = Lim(p) /\ Domain(q) # Domain(p) /\ Blocked(q))
            => (CanAcquire(p) \/ MutexInRelease(Lim(p)))

\* a call for origin b has got through acquire at the present time while a call
\* for origin a sleeps out its spacing
C28_Witness ==
    \E p, q \in Procs :
        /\ Domain(p) = "b" /\ Domain(q) = "a"
        /\ pc[q] = "acquire_sleep" /\ now < call[q].wakeAt
        /\ pc[p] = "parse"
        /\ lastDispatch["server"]["b"] = now

\* a call for origin b has got through acquire at the present time while a call
\* for origin a waits for a slot, both slots of a being held
C28_SlotWait ==
    \E p, q \in Procs :
        /\ Domain(p) = "b" /\ Domain(q) = "a"
        /\ pc[q] = "acquire_select"
        /\ semaphores["server"]["a"] = MaxConcurrencyPerDomain
        /\ Cardinality(InFlight("server", "a")) = MaxConcurrencyPerDomain
        /\ pc[p] = "parse"
        /\ lastDispatch["server"]["b"] = now

----------------------------------------------------------------------------
(* Claims about the Poller's loop, checked under SpecPoller *)

\* Stop has closed stopChan
StopSignalled == poller.stopChan = "closed"

\* C29: when the Poller is in its select with stopChan closed, its next step is
\* the return, and no further cycle starts; the loop returns from its select
\* only; and closing stopChan cancels nothing and moves no goroutine, so a batch
\* that is running goes on to its end
C29_StopAtWait ==
    [][ /\ (Waiting /\ StopSignalled /\ pc'[PollerProc] # pc[PollerProc])
            => /\ pc'[PollerProc] = "exited"
               /\ poller'.cycles = poller.cycles
        /\ (pc'[PollerProc] = "exited" /\ pc[PollerProc] # "exited")
            => (Waiting /\ StopSignalled)
        /\ poller'.stopChan # poller.stopChan
            => /\ cancelled' = cancelled
               /\ pc' = pc
               /\ batch' = batch ]_vars

\* with a timer of a positive duration the select with stopChan closed takes
\* the return
C29_StopAtWaitInRange ==
    [][ (Waiting /\ StopSignalled /\ poller.wait > 0
            /\ pc'[PollerProc] # pc[PollerProc])
            => /\ pc'[PollerProc] = "exited"
               /\ poller'.cycles = poller.cycles ]_vars

\* Stop was called during the first batch, and the loop has gone on to a second one
C29_SecondBatchAfterStop ==
    /\ poller.stopAt \notin {"none", "idle", "poll_top", "poll_wait", "exited"}
    /\ StopSignalled
    /\ poller.cycles = 2
    /\ pc[PollerProc] = "poll_fetch"

\* the phases of the Poller's loop: not started, fetching (from the top of the
\* loop to the return of FetchAll and cancel()), waiting (the select), stopped
Phase(at) ==
    CASE at = "idle" -> "new"
      [] at = "poll_wait" -> "waiting"
      [] at = "exited" -> "stopped"
      [] OTHER -> "fetching"

\* C30: once started, the loop goes from fetching to waiting only, from waiting to
\* fetching or stopped only, and stays stopped; FetchAll is called only by the
\* loop in its fetching phase, when no goroutine of an earlier batch is running;
\* a cycle begins only at the top of the loop, after the batch before it
\* has returned, its goroutines have ended and the wait after it is over; the
\* wait begins only when FetchAll has returned
C30_Alternates ==
    [][ LET from == Phase(pc[PollerProc])
            to == Phase(pc'[PollerProc])
            quiet == /\ \A w \in PoolProcs : pc[w] \in {"w_off", "w_exit"}
                     /\ sender.pc \in {"off", "done"}
                     /\ closer \in {"off", "done"}
        IN  /\ (~poller.started /\ poller'.started) => pc'[PollerProc] = "poll_top"
            /\ poller.started =>
                /\ from # "new" /\ to # "new"
                /\ from = "fetching" => to \in {"fetching", "waiting"}
                /\ from = "waiting" => to \in {"waiting", "fetching", "stopped"}
                /\ from = "stopped" => /\ to = "stopped"
                                       /\ batch' = batch
                                       /\ poller'.cycles = poller.cycles
                /\ FetchAllCalled => /\ pc[PollerProc] = "poll_fetch"
                                     /\ batch'.caller = PollerProc
                                     /\ quiet
                /\ poller'.cycles # poller.cycles
                    => /\ poller'.cycles = poller.cycles + 1
                       /\ pc[PollerProc] = "poll_top"
                       /\ pc'[PollerProc] = "poll_fetch"
                       /\ quiet
                /\ (to = "waiting" /\ from # "waiting") => BatchReturned
                /\ (from = "waiting" /\ to = "fetching") => pc'[PollerProc] = "poll_top"
                /\ (pc'[PollerProc] = "poll_top" /\ pc[PollerProc] # "poll_top")
                    => Waiting ]_vars

\* the loop has run two batches with a wait between them and has stopped
C30_Witness ==
    /\ pc[PollerProc] = "exited"
    /\ poller.cycles = MaxCycles
    /\ DOMAIN batch.results # {}

----------------------------------------------------------------------------
(* Claims about storage errors and the frame of FetchFeed, checked under Spec *)

\* p's FetchFeed is in its loop over the parsed entries
InItems(p) == pc[p] = "items"

\* C31: every iteration of the loop over the entries moves on to the next entry
\* and changes no feed row, whether AddItem returned an error or not; an iteration
\* whose AddItem returned an error stores nothing and counts nothing; the count
\* grows by one exactly when AddItem reported the row as new; the loop is left
\* only after the last entry, by the update of last_fetched with the time taken
\* before the loop (written when storage accepts it), and FetchFeed then returns
\* the count and a nil error
C31_InsertErrorSkipped ==
    [][ \A p \in Procs :
          (InItems(p) /\ call'[p] # call[p]) =>
            LET c == call[p]
                d == call'[p]
                f == c.feed.ID
                n == Len(c.parsed.Items)
                reported == reportedNew' # reportedNew
            IN  \/ /\ c.idx <= n
                   /\ InItems(p)'
                   /\ d.idx = c.idx + 1
                   /\ d.parsed = c.parsed /\ d.now = c.now /\ d.feed = c.feed
                   /\ feeds' = feeds
                   /\ d.newCount = c.newCount + (IF reported THEN 1 ELSE 0)
                   /\ reported => /\ items' # items
                                  /\ "item" \in c.dbErrs \/ "item" \notin d.dbErrs
                   /\ ("item" \in d.dbErrs /\ "item" \notin c.dbErrs)
                        => /\ items' = items
                           /\ ~reported
                \/ /\ c.idx > n
                   /\ pc'[p] = "release"
                   /\ d.ret = [count |-> c.newCount, err |-> "nil"]
                   /\ items' = items
                   /\ "last_fetched" \notin d.dbErrs
                        => /\ feeds'[f].last_fetched = c.now
                           /\ feeds'[f].last_error = <<>> ]_vars

\* a FetchFeed of two entries has returned nil with the count one: storage refused
\* the first entry and took the second, and last_fetched is the time of the call
C31_Witness ==
    \E p \in Procs :
        /\ pc[p] = "release"
        /\ call[p].ret = [count |-> 1, err |-> "nil"]
        /\ call[p].dbErrs = {"item"}
        /\ BagToSet(items) = {<<1, "g2">>}
        /\ feeds[1].last_fetched = call[p].now
        /\ call[p].now > ZeroTime

----------------------------------------------------------------------------
(* Claims about the frame of FetchFeed, checked under SpecFrame *)

\* the row of a feed that was subscribed and never fetched
NeverFetched(f) ==
    [title |-> FeedURL[f], last_fetched |-> ZeroTime, last_error |-> <<>>]

\* the goroutines that take the step
Stepping == { p \in Procs : pc'[p] # pc[p] \/ call'[p] # call[p] }

\* the rows of table items of feed f, with their link
RowsOf(f, tbl, links) ==
    { <<k, CopiesIn(k, tbl), links[k]>> : k \in { r \in BagToSet(tbl) : r[1] = f } }

\* C32: no step deletes a feed or an item or changes the link of a stored item;
\* a step that changes the row or the items of a feed is a step of a FetchFeed
\* call for that feed, past its acquire, and changes either the title alone, or
\* the error text alone, or last_fetched and the error text; a FetchFeed started
\* by FetchAll is for a feed FetchAll has started; and while no refresh request
\* was made, a feed FetchAll has not started has the row it was subscribed with
\* and no item
C32_Frame ==
    /\ [](\A f \in Feeds :
            (f \notin DOMAIN batch.started /\ pc["p1"] = "idle")
                => (feeds[f] = NeverFetched(f) /\ RowsOf(f, items, itemLink) = {}))
    /\ [][ /\ DOMAIN feeds' = DOMAIN feeds
           /\ \A k \in BagToSet(items) : CopiesIn(k, items') >= CopiesIn(k, items)
           /\ \A k \in DOMAIN itemLink :
                 k \in DOMAIN itemLink' /\ itemLink'[k] = itemLink[k]
           /\ \A f \in Feeds :
                 (\/ feeds'[f] # feeds[f]
                  \/ RowsOf(f, items', itemLink') # RowsOf(f, items, itemLink))
                    => /\ Stepping # {}
                       /\ \A p \in Stepping :
                             /\ call[p].feed.ID = f
                             /\ pc[p] \in {"parse", "items"}
                             /\ call[p].caller # "handler"
                                   => f \in DOMAIN batch.started
                       /\ feeds'[f].title # feeds[f].title
                             => /\ feeds'[f].last_fetched = feeds[f].last_fetched
                                /\ feeds'[f].last_error = feeds[f].last_error
                                /\ items' = items
                       /\ feeds'[f].last_fetched # feeds[f].last_fetched
                             => /\ feeds'[f].title = feeds[f].title
                                /\ items' = items
                       /\ feeds'[f].last_error # feeds[f].last_error
                             => /\ feeds'[f].title = feeds[f].title
                                /\ items' = items ]_vars

\* FetchAll was cancelled before it started the second feed: it has fetched the
\* first feed, whose title, last_fetched and one item are stored, the first
\* entry's link kept; a refresh request is storing the items of the second feed
C32_Witness ==
    /\ BatchReturned
    /\ DOMAIN batch.started = {1}
    /\ feeds[1] = [title |-> "T", last_fetched |-> TickStep, last_error |-> <<>>]
    /\ RowsOf(1, items, itemLink) = {<< <<1, "g1">>, 1, "l1" >>}
    /\ pc["p1"] = "items"
    /\ RowsOf(2, items, itemLink) # {}
    /\ feeds[2].last_fetched = ZeroTime

----------------------------------------------------------------------------
(* Claims about the two Fetchers of the process, checked under SpecFrame *)

\* the requests in flight to origin d: the calls inside ParseURLWithContext, on
\* whichever Fetcher
RequestsInFlight(d) == { p \in Procs : pc[p] = "parse" /\ Domain(p) = d }

\* C33: counting the calls of the Poller's Fetcher and of the server's Fetcher
\* together, at most MaxConcurrencyPerDomain requests are in flight to one origin
C33_AggregateCap ==
    \A d \in AllDomains :
        Cardinality(RequestsInFlight(d)) <= MaxConcurrencyPerDomain

\* on each Fetcher by itself the requests in flight to one origin are at most
\* MaxConcurrencyPerDomain, and so at most twice that number in the process
C33_CapPerFetcher ==
    \A d \in AllDomains :
        /\ \A fz \in Fetchers :
              Cardinality({ p \in RequestsInFlight(d) : Lim(p) = fz })
                  <= MaxConcurrencyPerDomain
        /\ Cardinality(RequestsInFlight(d)) <= 2 * MaxConcurrencyPerDomain

\* two workers of the Poller's FetchAll and a refresh request are inside the
\* request to origin a at once
C33_ThreeInFlight ==
    /\ RequestsInFlight("a") = {"w1", "w2", "p1"}
    /\ semaphores["poller"]["a"] = MaxConcurrencyPerDomain
    /\ semaphores["server"]["a"] = 1

----------------------------------------------------------------------------
(* Claims about the slots of the limiter, checked under SpecOrigins *)

\* the positions of a FetchFeed call between its send into sem and the receive
\* that gives the slot back
HoldsSlot ==
    {"acquire_last", "acquire_elapsed", "acquire_sleep", "parse", "items",
     "release", "release_recv"}

\* the callers on Fetcher fz that have taken a slot of origin d and not given it back
Holders(fz, d) ==
    { p \in Procs : pc[p] \in HoldsSlot /\ Lim(p) = fz /\ Domain(p) = d }

\* a FetchFeed call is in progress
FetchInProgress == \E p \in Procs : pc[p] \in InAcquire \cup HoldsSlot

\* C34: for every origin that has a gate, the tokens in the gate are as many as the
\* callers that have taken a slot and not given it back, between 0 and
\* MaxConcurrencyPerDomain; an origin without a gate has no such caller; and when no
\* FetchFeed is in progress every gate is empty
C34_SlotConservation ==
    /\ \A fz \in Fetchers, d \in AllDomains :
          IF d \in DOMAIN semaphores[fz]
          THEN /\ semaphores[fz][d] = Cardinality(Holders(fz, d))
               /\ semaphores[fz][d] \in 0..MaxConcurrencyPerDomain
          ELSE Holders(fz, d) = {}
    /\ ~FetchInProgress
          => \A fz \in Fetchers : \A d \in DOMAIN semaphores[fz] :
                semaphores[fz][d] = 0

\* both slots of origin a are held, one by a caller sleeping out the spacing and
\* one by a caller inside release, and one slot of origin b by a caller that
\* has returned from acquire
C34_Witness ==
    /\ DOMAIN semaphores["server"] = {"a", "b"}
    /\ semaphores["server"]["a"] = MaxConcurrencyPerDomain
    /\ semaphores["server"]["b"] = 1
    /\ \E p, q \in Holders("server", "a") :
          pc[p] = "acquire_sleep" /\ pc[q] = "release_recv"
    /\ pc["p4"] = "parse"

\* every call has returned, a cancelled one among them, and the gates are empty
C34_AllReturned ==
    /\ ncalls = CallBudget
    /\ ~FetchInProgress
    /\ DOMAIN semaphores["server"] = {"a", "b"}
    /\ \A d \in {"a", "b"} : semaphores["server"][d] = 0

\* C35: a caller inside release holds the mutex and finds a token of its origin to
\* take, so its receive does not block; and the mutex is held by nobody else: not
\* by a caller waiting for a slot or sleeping, and by a caller in release only
\* until its receive, which can be taken at once
C35_ReleaseNeverBlocks ==
    /\ \A p \in Procs :
          pc[p] = "release_recv"
            => /\ mu[Lim(p)] = p
               /\ call[p].acquired
               /\ Domain(p) \in DOMAIN semaphores[Lim(p)]
               /\ semaphores[Lim(p)][Domain(p)] > 0
               /\ ENABLED ReleaseRecv(p)
    /\ \A fz \in Fetchers : mu[fz] # NoOwner => MutexInRelease(fz)

\* a caller is inside release for origin a with the mutex, while a second caller
\* waits for a slot of a, both being held, and the caller for origin b waits for
\* the mutex at the start of its acquire
C35_Witness ==
    \E p, q \in Procs :
        /\ pc[p] = "release_recv" /\ Domain(p) = "a"
        /\ pc[q] = "acquire_select" /\ Domain(q) = "a"
        /\ semaphores["server"]["a"] = MaxConcurrencyPerDomain
        /\ pc["p4"] = "acquire"
        /\ ~ENABLED AcquireGetSem("p4")

----------------------------------------------------------------------------
(* Claims about the limiter's progress, checked under SpecLimiterFair *)

\* C36: every call that has entered acquire leaves it: acquire returns nil and the
\* request is dispatched, or it returns the cancellation error
C36_AcquireReturns ==
    \A p \in LimiterProcs : (pc[p] \in InAcquire) ~> (pc[p] \notin InAcquire)

\* a caller whose context is not cancelled waits for a slot while both are held
C36_Witness ==
    \E p \in Procs :
        /\ pc[p] = "acquire_select"
        /\ ~Done(p)
        /\ semaphores["server"]["a"] = MaxConcurrencyPerDomain
        /\ Cardinality(Holders("server", "a")) = MaxConcurrencyPerDomain

\* a caller whose context is not cancelled sleeps out the spacing, holding a slot
C36_Sleeping ==
    \E q \in Procs :
        /\ pc[q] = "acquire_sleep"
        /\ ~Done(q)
        /\ now < call[q].wakeAt

----------------------------------------------------------------------------
(* Claims about Stop, checked under SpecPollerFair *)

\* a call of Stop that is under way returns
C37_StopReturns == (poller.stop = "waiting") ~> (poller.stop = "returned")

\* the step that closes stopChan cancels no context and moves no goroutine, and
\* Stop returns only when the loop has exited with no FetchAll running
C37_StopWaitsForBatch ==
    [][ /\ poller'.stopChan # poller.stopChan
            => (cancelled' = cancelled /\ pc' = pc /\ batch' = batch /\ call' = call)
        /\ (poller'.stop = "returned" /\ poller.stop # "returned")
            => (pc[PollerProc] = "exited" /\ ~PollerBatchRunning) ]_vars

\* after stopChan is closed the loop calls FetchAll at most once more
C37_OneMoreBatch == StopSignalled => BatchesBegun <= poller.stopBatches + 1

\* with the default setting the loop calls FetchAll at most once more after
\* stopChan is closed
C37_OneMoreBatchInRange ==
    (StopSignalled /\ setting = DefaultSetting)
        => BatchesBegun <= poller.stopBatches + 1

\* C37: a call of Stop on a started Poller returns; Stop does not cancel the batch
\* in progress and returns only after it; and after stopChan is closed at most one
\* further FetchAll is called
C37_StopTerminates ==
    /\ C37_StopReturns
    /\ C37_StopWaitsForBatch
    /\ []C37_OneMoreBatch

\* Stop was called before the loop's first FetchAll, and the loop has called
\* FetchAll a second time
C37_TwoBatchesAfterStop ==
    /\ StopSignalled
    /\ poller.stopBatches = 0
    /\ BatchesBegun = 2
    /\ PollerBatchRunning

\* Stop was called while FetchAll was fetching, and has returned after the loop
\* called no further FetchAll
C37_StoppedDuringBatch ==
    /\ poller.stop = "returned"
    /\ poller.stopAt \in {"parse", "collect"}
    /\ BatchesBegun = poller.stopBatches
    /\ DOMAIN batch.results # {}

----------------------------------------------------------------------------
(* Claims about overlapping fetches of one feed *)

\* C38: no step moves a feed's stored last_fetched backward, whatever the
\* interleaving of the FetchFeed calls on the feed
C38_LastFetchedMonotone ==
    [][ \A f \in Feeds : feeds'[f].last_fetched >= feeds[f].last_fetched ]_vars

\* two successful calls on one feed have written last_fetched, and the stored value
\* is the time taken by the one that began its items first, earlier than the other's
C38_MovedBackward ==
    \E p, q \in Procs :
        /\ p # q
        /\ call[p].feed.ID = call[q].feed.ID
        /\ call[p].ret.err = "nil" /\ call[q].ret.err = "nil"
        /\ "last_fetched" \notin call[p].dbErrs
        /\ "last_fetched" \notin call[q].dbErrs
        /\ call[p].now < call[q].now
        /\ feeds[call[p].feed.ID].last_fetched = call[p].now

\* every write of last_fetched stores the time its own call took before its items
C38_WritesOwnTime ==
    [][ \A f \in Feeds :
            feeds'[f].last_fetched # feeds[f].last_fetched
                => \E p \in Procs : /\ pc[p] = "items" /\ pc'[p] = "release"
                                    /\ call[p].feed.ID = f
                                    /\ feeds'[f].last_fetched = call[p].now ]_vars

============================================================================
